---- MODULE Spec2Model ----
(***************************************************************************)
(* Model of the Alt-triggered automation controller                        *)
(* (src/alt_triggered_automation.py, class AltTriggeredAutomation) with    *)
(* its collaborators: the keyboard interface, the status classifier's      *)
(* region selector and the configuration.                                  *)
(*                                                                         *)
(* Threads: the key listener (on_press), the main thread (run) and one     *)
(* worker thread per accepted Alt press (_execute_sequence).  A worker     *)
(* step is one action; the steps are cut where the code touches state      *)
(* shared between threads.                                                 *)
(*                                                                         *)
(* Units: time is counted in quarter seconds, confidences in hundredths.   *)
(***************************************************************************)
EXTENDS Integers, Sequences, FiniteSets, TLC

----------------------------------------------------------------------------
(* Bounds of the model *)

\* worker thread slots: threads that can be alive at the same time
NumWorkers == 2
\* clock ticks modelled after the listener starts
TimeHorizon == 2
\* nested alt restarts modelled inside one worker cycle
MaxDepth == 1
\* config.STATUS_MAX_RETRIES (externally supplied, validate_config wants >= 1;
\* config.py ships 5): the model runs it small
STATUS_MAX_RETRIES == 2
\* config.STATUS_MAX_ITERATIONS (externally supplied, >= 1; config.py ships 50)
STATUS_MAX_ITERATIONS == 2
\* the largest retries argument of send_command that is tried
MaxRetriesArg == 3
\* threads started over the life of the process, and captures per thread,
\* while the capture handles are followed
MaxTemplates == 2
Levels == 8
MaxConnects == 2
CycleHorizon == 3
MaxHalf == 2
NumCapThreads == 2
MaxGrabs == 2

----------------------------------------------------------------------------
(* Configuration (src/config.py) *)

\* ALT_DEBOUNCE_TIME = 0.5 s, in quarter seconds
ALT_DEBOUNCE_TIME == 2
\* ESP32Serial.connect sleeps 2 s before the listener exists: perf_counter()
\* is at least 2 s (8 quarter seconds) at the first key event
StartTime == 8
\* MIN_CONFIDENCE_FOR_ESP_ACTION = 0.6, in hundredths
MIN_CONFIDENCE_FOR_ESP_ACTION == 60
\* STATUS_CONFIDENCE_THRESHOLD = 0.8, in hundredths
STATUS_CONFIDENCE_THRESHOLD == 80
CROP_SIZE == 26
DEBOUNCE_S == 1
TEMPLATE_CONFIDENCE_THRESHOLD == 70

\* RESOLUTION_CONFIGS["1920x1080"]
CROP_COORDINATES == [p \in {1, 2, 3} |->
                        CASE p = 1 -> [x |-> 39, y |-> 943]
                          [] p = 2 -> [x |-> 97, y |-> 943]
                          [] p = 3 -> [x |-> 155, y |-> 943]]
STATUS_REGION_CROP == [x |-> 761, y |-> 72, width |-> 397, height |-> 16]
END_REGION_CROP == [x |-> 842, y |-> 33, width |-> 15, height |-> 11]

\* positions = list(self._crop_coords.keys()): 1, 2, 3 in insertion order
Positions == <<1, 2, 3>>
NPositions == Len(Positions)

Workers == 1..NumWorkers

----------------------------------------------------------------------------
(* Frames: what a capture returns.  A frame has a shape (h, w) and the      *)
(* content of the three kinds of region, given as what the classifier      *)
(* makes of it: classification is deterministic in the image.              *)

\* a classifier call on a region: it raises, or returns (pred, conf)
Raises == [exc |-> TRUE, pred |-> "-", conf |-> 0]
Blank == [exc |-> FALSE, pred |-> "-", conf |-> 0]
Res(p, c) == [exc |-> FALSE, pred |-> p, conf |-> c]

\* confidences just below and at the threshold
StatusConfs == {STATUS_CONFIDENCE_THRESHOLD - 1, STATUS_CONFIDENCE_THRESHOLD}

\* GlyphClassifier.classify: q or e (or a label the controller does not know)
GlyphResults ==
    {Res(p, MIN_CONFIDENCE_FOR_ESP_ACTION) : p \in {"q", "e", "x"}}
        \cup {Res("e", MIN_CONFIDENCE_FOR_ESP_ACTION - 1), Raises}
\* StatusTemplateClassifier.classify(region_type="end"): status_list = ["end"]
EndResults == {Res("end", c) : c \in StatusConfs} \cup {Raises}
\* StatusTemplateClassifier.classify(region_type="status"): ["alt", "wait"]
StatusResults == {Res(p, c) : p \in {"alt", "wait"}, c \in StatusConfs} \cup {Raises}

NoFrame == [h |-> 0 - 1, w |-> 0 - 1, glyph |-> Blank, end |-> Blank, status |-> Blank]

\* _crop_frame: None when the square at the position's coordinates leaves the frame
CropFrame(frame, position) ==
    LET c == CROP_COORDINATES[position]
    IN  ~ ((c.y + CROP_SIZE > frame.h) \/ (c.x + CROP_SIZE > frame.w))

\* _crop_status_region: None when the region leaves the frame
CropStatusRegion(frame) ==
    ~ ((STATUS_REGION_CROP.y + STATUS_REGION_CROP.height > frame.h)
       \/ (STATUS_REGION_CROP.x + STATUS_REGION_CROP.width > frame.w))

\* _crop_end_region: None when the region leaves the frame
CropEndRegion(frame) ==
    ~ ((END_REGION_CROP.y + END_REGION_CROP.height > frame.h)
       \/ (END_REGION_CROP.x + END_REGION_CROP.width > frame.w))

\* a frame is kept in one form: a region that leaves the frame has no content
Shaped(h0, w0, g, e, t) ==
    LET s == [h |-> h0, w |-> w0, glyph |-> g, end |-> e, status |-> t]
    IN  [s EXCEPT !.glyph = IF \E p \in 1..NPositions : CropFrame(s, p) THEN g ELSE Blank,
                  !.end = IF CropEndRegion(s) THEN e ELSE Blank,
                  !.status = IF CropStatusRegion(s) THEN t ELSE Blank]

\* frames captured during the Q/E sequence: the full window, a window too
\* small for any glyph
QEShapes == {<<1080, 1920>>, <<50, 900>>}
QEFrames == {Shaped(s[1], s[2], g, Blank, Blank) : s \in QEShapes, g \in GlyphResults}

\* frames captured while monitoring: the full window, a window holding the
\* end region only, a window holding neither region
MonShapes == {<<1080, 1920>>, <<50, 900>>, <<30, 100>>}
MonFrames == {Shaped(s[1], s[2], Blank, e, t) :
                 s \in MonShapes, e \in EndResults, t \in StatusResults}

\* a classifier that matches the END template whatever the region type
StatusClassifyEndOnly(frame, region_type) == frame.end

\* StatusClassifier.classify(image, region_type): the region type selects
\* the categories and the target size
StatusClassify(frame, region_type) ==
    IF region_type = "end" THEN frame.end ELSE frame.status

\* GlyphClassifier.classify(image)
GlyphClassify(frame) == frame.glyph

----------------------------------------------------------------------------
(* State *)

VARIABLES
    \* AltTriggeredAutomation fields
    processing,        \* _processing_sequence
    stop_monitoring,   \* _stop_monitoring
    running,           \* _running
    last_alt_press,    \* _last_alt_press
    connected,         \* keyboard.connected / esp32.is_connected
    \* environment
    now,               \* time.perf_counter()
    mainpc,            \* where run() is: listen, sct_close, exit
    \* worker threads: position in the code and locals
    pc,
    origin,            \* who called _execute_qe_sequence: trigger or alt
    position,          \* loop variable of _execute_qe_sequence
    frame,             \* the captured frame
    no_match_count,
    iteration_count,
    exit_reason,
    depth,             \* _status_monitoring_loop instances below the running one
    \* observation (not program state)
    acceptedAt,        \* time of the last trigger that spawned a worker
    attempted,         \* positions captured in the running Q/E sequence
    completed,         \* positions whose processing returned
    posCmds,           \* commands sent for the position processed last
    altPressed,        \* the ALT command went out for the running restart
    ticks,             \* polling ticks of the running monitoring phase
    anyGrab,           \* a capture of the running phase succeeded
    notified,          \* notifications attempted at the end of the monitoring
    delivered,         \* how each of these attempts came out
    \* the collaborators, each followed on its own
    esp32,             \* ESP32Serial: its fields and the send_command call in progress
    capture,           \* _sct_instances, the mss handles and the threads that capture
    startup,           \* main(): the configuration it starts from and how far it has come
    matcher,           \* one classify call: the correlations it meets and what it returns
    otsu,              \* one calculate_otsu_threshold call: its histogram and loop variables
    communicator,      \* ESPCommunicator: its fields and the connect call in progress
    cycle              \* the keypress-driven capture scripts: cycle position, debounce stamps, last press

shared == <<processing, stop_monitoring, running, last_alt_press, connected>>
env == <<now, mainpc>>
locals == <<pc, origin, position, frame, no_match_count, iteration_count,
            exit_reason, depth>>
obs == <<acceptedAt, attempted, completed, posCmds, altPressed, ticks, anyGrab,
         notified, delivered>>
controller == <<shared, env, locals, obs>>
aux == <<esp32, capture, startup, matcher, otsu, communicator, cycle>>
vars == <<controller, aux>>

QEPcs == {"qe_init", "qe_grab", "qe_frame"}
MonPcs == {"mon_init", "mon_check", "mon_grab", "mon_frame", "mon_alt", "mon_exit",
           "mon_notify"}
Pcs == {"free", "start", "seq_finally"} \cup QEPcs \cup MonPcs

Reasons == {"", "capture", "crop", "lowconf", "error", "maxiter", "skey"}

\* __init__
ControllerInit ==
    /\ processing = FALSE
    /\ stop_monitoring = FALSE
    /\ running = TRUE
    /\ last_alt_press = 0
    /\ connected = TRUE
    /\ now = StartTime
    /\ mainpc = "listen"
    /\ pc = [w \in Workers |-> "free"]
    /\ origin = [w \in Workers |-> "trigger"]
    /\ position = [w \in Workers |-> 0]
    /\ frame = [w \in Workers |-> NoFrame]
    /\ no_match_count = [w \in Workers |-> 0]
    /\ iteration_count = [w \in Workers |-> 0]
    /\ exit_reason = [w \in Workers |-> ""]
    /\ depth = [w \in Workers |-> 0]
    /\ acceptedAt = 0 - 1
    /\ attempted = [w \in Workers |-> << >>]
    /\ completed = [w \in Workers |-> {}]
    /\ posCmds = [w \in Workers |-> << >>]
    /\ altPressed = [w \in Workers |-> FALSE]
    /\ ticks = [w \in Workers |-> 0]
    /\ anyGrab = [w \in Workers |-> FALSE]
    /\ notified = [w \in Workers |-> << >>]
    /\ delivered = [w \in Workers |-> << >>]

----------------------------------------------------------------------------
(* Helpers *)

Put(f, w, v) == [f EXCEPT ![w] = v]

Min(a, b) == IF a < b THEN a ELSE b
Max(a, b) == IF a < b THEN b ELSE a

\* the polling-tick observation saturates above both budgets
TickCap == Max(STATUS_MAX_ITERATIONS, STATUS_MAX_RETRIES) + 1

----------------------------------------------------------------------------
(* Key listener thread: on_press *)

\* a debounce test whose window is one clock unit short
DebounceShort(t, last) == (t - last) < ALT_DEBOUNCE_TIME - 1

\* _handle_alt_press: the debounce test
DebounceRejects(t, last) == (t - last) < ALT_DEBOUNCE_TIME

\* threading.Thread(target=self._execute_sequence).start(): the new thread
NewThread ==
    CHOOSE w \in Workers : pc[w] = "free" /\ \A v \in Workers : pc[v] = "free" => w <= v

\* _handle_alt_press
HandleAltPress ==
    /\ mainpc = "listen"
    /\ IF DebounceRejects(now, last_alt_press)
       THEN UNCHANGED vars
       ELSE /\ \E w \in Workers : pc[w] = "free"
            /\ last_alt_press' = now
            /\ pc' = Put(pc, NewThread, "start")
            /\ acceptedAt' = now
            /\ UNCHANGED <<processing, stop_monitoring, running, connected, env>>
            /\ UNCHANGED <<origin, position, frame, no_match_count, iteration_count,
                           exit_reason, depth>>
            /\ UNCHANGED <<attempted, completed, posCmds, altPressed, ticks, anyGrab,
                           notified,
                   delivered>>
    /\ UNCHANGED aux

\* on_press, S key
OnPressS ==
    /\ mainpc = "listen"
    /\ stop_monitoring' = TRUE
    /\ UNCHANGED <<processing, running, last_alt_press, connected, env, locals, obs>>
    /\ UNCHANGED aux

\* on_press, ESC
OnPressEsc ==
    /\ mainpc = "listen"
    /\ running' = FALSE
    /\ UNCHANGED <<processing, stop_monitoring, last_alt_press, connected, env, locals, obs>>
    /\ UNCHANGED aux

\* time passes.  The clock is followed while a debounce window is open: once
\* the window has closed, more time changes no decision of the controller
Tick ==
    /\ mainpc = "listen"
    /\ now < StartTime + TimeHorizon
    /\ DebounceRejects(now, last_alt_press)
    /\ now' = now + 1
    /\ UNCHANGED <<shared, mainpc, locals, obs>>
    /\ UNCHANGED aux

----------------------------------------------------------------------------
(* Main thread: run *)

\* KeyboardInterface.cleanup: esp32.disconnect()
KeyboardCleanup ==
    connected' = FALSE

\* while self._running: sleep(0.1) ends; listener.stop();
\* finally: self.keyboard.cleanup()
RunLoopExit ==
    /\ mainpc = "listen"
    /\ ~ running
    /\ KeyboardCleanup
    /\ mainpc' = "sct_close"
    /\ UNCHANGED <<processing, stop_monitoring, running, last_alt_press, now, locals, obs>>
    /\ UNCHANGED aux

\* except KeyboardInterrupt; finally: self.keyboard.cleanup()
RunInterrupted ==
    /\ mainpc = "listen"
    /\ running
    /\ KeyboardCleanup
    /\ mainpc' = "sct_close"
    /\ UNCHANGED <<processing, stop_monitoring, running, last_alt_press, now, locals, obs>>
    /\ UNCHANGED aux

\* finally: close the capture handles; run returns and the process ends,
\* taking the daemon worker threads with it
RunReturns ==
    /\ mainpc = "sct_close"
    /\ mainpc' = "exit"
    /\ pc' = [w \in Workers |-> "free"]
    /\ origin' = [w \in Workers |-> "trigger"]
    /\ position' = [w \in Workers |-> 0]
    /\ frame' = [w \in Workers |-> NoFrame]
    /\ no_match_count' = [w \in Workers |-> 0]
    /\ iteration_count' = [w \in Workers |-> 0]
    /\ exit_reason' = [w \in Workers |-> ""]
    /\ depth' = [w \in Workers |-> 0]
    /\ attempted' = [w \in Workers |-> << >>]
    /\ completed' = [w \in Workers |-> {}]
    /\ posCmds' = [w \in Workers |-> << >>]
    /\ altPressed' = [w \in Workers |-> FALSE]
    /\ ticks' = [w \in Workers |-> 0]
    /\ anyGrab' = [w \in Workers |-> FALSE]
    /\ notified' = [w \in Workers |-> << >>]
    /\ delivered' = [w \in Workers |-> << >>]
    /\ UNCHANGED <<shared, now, acceptedAt>>
    /\ UNCHANGED aux

----------------------------------------------------------------------------
(* Worker thread: _execute_sequence *)

\* a worker entry that takes the flag without looking at it
ExecuteSequenceUnguarded(w) ==
    /\ mainpc # "exit"
    /\ pc[w] = "start"
    /\ processing' = TRUE
    /\ stop_monitoring' = FALSE
    /\ pc' = Put(pc, w, "qe_init")
    /\ origin' = Put(origin, w, "trigger")
    /\ depth' = Put(depth, w, 0)
    /\ UNCHANGED <<running, last_alt_press, connected>>
    /\ UNCHANGED <<env, position, frame, no_match_count, iteration_count,
                   exit_reason, obs>>
    /\ UNCHANGED aux

\* a worker entry that takes the flag and leaves the abort flag as it finds it
ExecuteSequenceKeepsAbort(w) ==
    /\ mainpc # "exit"
    /\ pc[w] = "start"
    /\ IF processing
       THEN /\ pc' = Put(pc, w, "free")
            /\ UNCHANGED <<shared, origin, depth>>
       ELSE /\ processing' = TRUE
            /\ pc' = Put(pc, w, "qe_init")
            /\ origin' = Put(origin, w, "trigger")
            /\ depth' = Put(depth, w, 0)
            /\ UNCHANGED <<stop_monitoring, running, last_alt_press, connected>>
    /\ UNCHANGED <<env, position, frame, no_match_count, iteration_count,
                   exit_reason, obs>>
    /\ UNCHANGED aux

\* with self._lock: if self._processing_sequence: return; else take the flag
ExecuteSequence(w) ==
    /\ mainpc # "exit"
    /\ pc[w] = "start"
    /\ IF processing
       THEN /\ pc' = Put(pc, w, "free")
            /\ UNCHANGED <<shared, origin, depth>>
       ELSE /\ processing' = TRUE
            /\ stop_monitoring' = FALSE
            /\ pc' = Put(pc, w, "qe_init")
            /\ origin' = Put(origin, w, "trigger")
            /\ depth' = Put(depth, w, 0)
            /\ UNCHANGED <<running, last_alt_press, connected>>
    /\ UNCHANGED <<env, position, frame, no_match_count, iteration_count,
                   exit_reason, obs>>
    /\ UNCHANGED aux

\* finally: with self._lock: self._processing_sequence = False; the thread
\* ends and its locals with it
SequenceFinally(w) ==
    /\ mainpc # "exit"
    /\ pc[w] = "seq_finally"
    /\ processing' = FALSE
    /\ pc' = Put(pc, w, "free")
    /\ origin' = Put(origin, w, "trigger")
    /\ position' = Put(position, w, 0)
    /\ frame' = Put(frame, w, NoFrame)
    /\ no_match_count' = Put(no_match_count, w, 0)
    /\ iteration_count' = Put(iteration_count, w, 0)
    /\ exit_reason' = Put(exit_reason, w, "")
    /\ depth' = Put(depth, w, 0)
    /\ attempted' = Put(attempted, w, << >>)
    /\ completed' = Put(completed, w, {})
    /\ posCmds' = Put(posCmds, w, << >>)
    /\ altPressed' = Put(altPressed, w, FALSE)
    /\ ticks' = Put(ticks, w, 0)
    /\ anyGrab' = Put(anyGrab, w, FALSE)
    /\ notified' = Put(notified, w, << >>)
    /\ delivered' = Put(delivered, w, << >>)
    /\ UNCHANGED <<stop_monitoring, running, last_alt_press, connected, env, acceptedAt>>
    /\ UNCHANGED aux

----------------------------------------------------------------------------
(* Worker thread: _execute_qe_sequence and _capture_classify_and_send *)

\* a failed tick that breaks one failure late
NoMatchLate(w, reason) ==
    /\ no_match_count' = Put(no_match_count, w, no_match_count[w] + 1)
    /\ IF no_match_count[w] + 1 > STATUS_MAX_RETRIES
       THEN /\ exit_reason' = Put(exit_reason, w, reason)
            /\ pc' = Put(pc, w, "mon_exit")
       ELSE /\ exit_reason' = exit_reason
            /\ pc' = Put(pc, w, "mon_check")

\* a failed tick of the monitoring loop: no_match_count += 1, and the break
\* with its reason when the retry budget is used up
NoMatch(w, reason) ==
    /\ no_match_count' = Put(no_match_count, w, no_match_count[w] + 1)
    /\ IF no_match_count[w] + 1 >= STATUS_MAX_RETRIES
       THEN /\ exit_reason' = Put(exit_reason, w, reason)
            /\ pc' = Put(pc, w, "mon_exit")
       ELSE /\ exit_reason' = exit_reason
            /\ pc' = Put(pc, w, "mon_check")

\* an exception of the Q/E sequence that leaves the thread past its finally
QERaisesEscapes(w) ==
    IF origin[w] = "trigger"
    THEN /\ pc' = Put(pc, w, "free")
         /\ UNCHANGED <<no_match_count, exit_reason>>
    ELSE NoMatch(w, "error")

\* the except clause an exception of the Q/E sequence lands in:
\* _execute_sequence's (the sequence a trigger started), or the one around
\* the status classification in _status_monitoring_loop (an alt restart)
QERaises(w) ==
    IF origin[w] = "trigger"
    THEN /\ pc' = Put(pc, w, "seq_finally")
         /\ UNCHANGED <<no_match_count, exit_reason>>
    ELSE NoMatch(w, "error")

\* a for loop that goes over the positions from the last one to the first
PositionReturnsBackwards(w) ==
    /\ completed' = Put(completed, w, completed[w] \cup {position[w]})
    /\ IF position[w] = Positions[NPositions]
       THEN /\ pc' = Put(pc, w, "mon_init")
            /\ position' = position
            /\ depth' = Put(depth, w, IF origin[w] = "alt" THEN depth[w] + 1 ELSE depth[w])
       ELSE /\ pc' = Put(pc, w, "qe_grab")
            /\ position' = Put(position, w, IF position[w] = Positions[1]
                                             THEN Positions[NPositions]
                                             ELSE position[w] - 1)
            /\ depth' = depth

\* _capture_classify_and_send returns (True or False): the for loop goes on,
\* and after the last position _execute_qe_sequence returns to its caller,
\* which calls _status_monitoring_loop
PositionReturns(w) ==
    /\ completed' = Put(completed, w, completed[w] \cup {position[w]})
    /\ IF position[w] = Positions[NPositions]
       THEN /\ pc' = Put(pc, w, "mon_init")
            /\ position' = position
            /\ depth' = Put(depth, w, IF origin[w] = "alt" THEN depth[w] + 1 ELSE depth[w])
       ELSE /\ pc' = Put(pc, w, "qe_grab")
            /\ position' = Put(position, w, position[w] + 1)
            /\ depth' = depth

\* time.sleep(self._initial_delay); positions = list(self._crop_coords.keys())
QEInit(w) ==
    /\ mainpc # "exit"
    /\ pc[w] = "qe_init"
    /\ pc' = Put(pc, w, "qe_grab")
    /\ position' = Put(position, w, Positions[1])
    /\ attempted' = Put(attempted, w, << >>)
    /\ completed' = Put(completed, w, {})
    /\ posCmds' = Put(posCmds, w, << >>)
    /\ UNCHANGED <<shared, env, origin, frame, no_match_count, iteration_count,
                   exit_reason, depth, acceptedAt, altPressed, ticks, anyGrab, notified,
                   delivered>>
    /\ UNCHANGED aux

\* the position's capture delay; frame = self._safe_grab();
\* if frame is None: return False
QEGrab(w) ==
    /\ mainpc # "exit"
    /\ pc[w] = "qe_grab"
    /\ attempted' = Put(attempted, w, Append(attempted[w], position[w]))
    /\ posCmds' = Put(posCmds, w, << >>)
    /\ \/ /\ PositionReturns(w)
          /\ frame' = frame
       \/ /\ \E f \in QEFrames : frame' = Put(frame, w, f)
          /\ pc' = Put(pc, w, "qe_frame")
          /\ UNCHANGED <<position, depth, completed>>
    /\ UNCHANGED <<shared, env, origin, no_match_count, iteration_count,
                   exit_reason, acceptedAt, altPressed, ticks, anyGrab, notified,
                   delivered>>
    /\ UNCHANGED aux

\* a command choice that does not look at the confidence
KeyCommandUngated(prediction, confidence) ==
    IF prediction = "q" THEN "Q"
    ELSE IF prediction = "e" THEN "E"
    ELSE ""

\* _process_classification: the command for a classification, "" for none
KeyCommand(prediction, confidence) ==
    IF confidence < MIN_CONFIDENCE_FOR_ESP_ACTION THEN ""
    ELSE IF prediction = "q" THEN "Q"
    ELSE IF prediction = "e" THEN "E"
    ELSE ""

\* KeyboardInterface.press_q / press_e / press_alt: the commands handed to
\* send_command, none when the keyboard is not connected
Pressed(command) ==
    IF command # "" /\ connected THEN <<command>> ELSE << >>

\* the rest of _capture_classify_and_send on the captured frame: the crop,
\* the classifier call, _process_classification and log_result
\* (config.LOG_TO_CSV), which returns or raises
QEFrame(w) ==
    /\ mainpc # "exit"
    /\ pc[w] = "qe_frame"
    /\ frame' = Put(frame, w, NoFrame)
    /\ IF ~ CropFrame(frame[w], position[w])
       THEN /\ PositionReturns(w)
            /\ UNCHANGED <<posCmds, no_match_count, exit_reason>>
       ELSE IF GlyphClassify(frame[w]).exc
       THEN /\ QERaises(w)
            /\ UNCHANGED <<posCmds, position, depth, completed>>
       ELSE /\ posCmds' = Put(posCmds, w,
                    posCmds[w] \o Pressed(KeyCommand(GlyphClassify(frame[w]).pred,
                                                     GlyphClassify(frame[w]).conf)))
            /\ \/ /\ PositionReturns(w)
                  /\ UNCHANGED <<no_match_count, exit_reason>>
               \/ /\ QERaises(w)
                  /\ UNCHANGED <<position, depth, completed>>
    /\ UNCHANGED <<shared, env, origin, iteration_count, acceptedAt, attempted,
                   altPressed, ticks, anyGrab, notified,
                   delivered>>
    /\ UNCHANGED aux

----------------------------------------------------------------------------
(* Worker thread: _status_monitoring_loop *)

\* end_prediction == "end" and end_confidence >= STATUS_CONFIDENCE_THRESHOLD
EndMatch(r) == r.pred = "end" /\ r.conf >= STATUS_CONFIDENCE_THRESHOLD

\* a threshold test that lets a read just below the threshold through
StatusConfidentLoose(r) == r.conf >= STATUS_CONFIDENCE_THRESHOLD - 1

\* confidence >= config.STATUS_CONFIDENCE_THRESHOLD
StatusConfident(r) == r.conf >= STATUS_CONFIDENCE_THRESHOLD

\* the end check classified the end region: the crop and the classifier
\* call both went through
EndChecked(f) == CropEndRegion(f) /\ ~ StatusClassify(f, "end").exc

\* an end check that gives way to a confident alt/wait read
EndFiresAfterStatus(f) ==
    /\ CropEndRegion(f) /\ ~ StatusClassify(f, "end").exc
    /\ EndMatch(StatusClassify(f, "end"))
    /\ ~ (/\ CropStatusRegion(f)
          /\ ~ StatusClassify(f, "status").exc
          /\ StatusConfident(StatusClassify(f, "status")))

\* the end check of a tick breaks out of the loop
EndFires(f) == EndChecked(f) /\ EndMatch(StatusClassify(f, "end"))

\* the alt/wait check of a tick reaches a confident result
StatusRead(f) ==
    /\ CropStatusRegion(f)
    /\ ~ StatusClassify(f, "status").exc
    /\ StatusConfident(StatusClassify(f, "status"))

\* the tick ends in the alt branch
AltFires(f) ==
    ~ EndFires(f) /\ StatusRead(f) /\ StatusClassify(f, "status").pred = "alt"

\* time.sleep(config.STATUS_INITIAL_WAIT); the counters start
MonInit(w) ==
    /\ mainpc # "exit"
    /\ pc[w] = "mon_init"
    /\ pc' = Put(pc, w, "mon_check")
    /\ no_match_count' = Put(no_match_count, w, 0)
    /\ iteration_count' = Put(iteration_count, w, 0)
    /\ exit_reason' = Put(exit_reason, w, "")
    /\ ticks' = Put(ticks, w, 0)
    /\ anyGrab' = Put(anyGrab, w, FALSE)
    /\ altPressed' = Put(altPressed, w, FALSE)
    /\ posCmds' = Put(posCmds, w, << >>)
    /\ attempted' = Put(attempted, w, << >>)
    /\ completed' = Put(completed, w, {})
    /\ position' = Put(position, w, 0)
    /\ UNCHANGED <<shared, env, origin, frame, depth, acceptedAt, notified,
                   delivered>>
    /\ UNCHANGED aux

\* a loop check that does not look at the abort flag
LoopConditionNoAbort(w) ==
    iteration_count[w] < STATUS_MAX_ITERATIONS /\ running

\* while iteration_count < MAX_ITERATIONS and self._running and not self._stop_monitoring
LoopCondition(w) ==
    iteration_count[w] < STATUS_MAX_ITERATIONS /\ running /\ ~ stop_monitoring

MonCheck(w) ==
    /\ mainpc # "exit"
    /\ pc[w] = "mon_check"
    /\ pc' = Put(pc, w, IF LoopCondition(w) THEN "mon_grab" ELSE "mon_exit")
    /\ UNCHANGED <<shared, env, origin, position, frame, no_match_count,
                   iteration_count, exit_reason, depth, obs>>
    /\ UNCHANGED aux

\* the inter-check sleep, then frame = self._safe_grab()
MonGrab(w) ==
    /\ mainpc # "exit"
    /\ pc[w] = "mon_grab"
    /\ ticks' = Put(ticks, w, Min(ticks[w] + 1, TickCap))
    /\ \/ /\ NoMatch(w, "capture")
          /\ UNCHANGED <<frame, anyGrab>>
       \/ /\ \E f \in MonFrames :
                /\ AltFires(f) => depth[w] < MaxDepth
                /\ frame' = Put(frame, w, f)
          /\ anyGrab' = Put(anyGrab, w, TRUE)
          /\ pc' = Put(pc, w, "mon_frame")
          /\ UNCHANGED <<no_match_count, exit_reason>>
    /\ UNCHANGED <<shared, env, origin, position, iteration_count, depth,
                   acceptedAt, attempted, completed, posCmds, altPressed, notified,
                   delivered>>
    /\ UNCHANGED aux

\* asyncio.run(send_message(...)): send_message returns True, or False
\* (no credentials, or the Bot call failed), or asyncio.run raises
NotifyOutcomes == {"True", "False", "raises"}

\* the outcomes of the attempts a step makes: none when nothing is sent
Attempts(notice) == IF notice = << >> THEN {<< >>} ELSE {<<o>> : o \in NotifyOutcomes}

\* asyncio.run(send_message("END detected! ...")): attempted on an end match
EndNotice(f) == IF EndFires(f) THEN <<"end">> ELSE << >>

\* an END notification whose exception skips the break
AfterEndNoticeUncaught(outcome) ==
    IF outcome = <<"raises">> THEN "mon_check" ELSE "mon_exit"

\* try: asyncio.run(...) except Exception as telegram_error: print(...); then
\* break, whatever came of the attempt
AfterEndNotice(outcome) == "mon_exit"

\* try: asyncio.run(...) except Exception as telegram_error: print(...); then
\* the loop instance returns, whatever came of the attempt
AfterIdleNotice(outcome) == "seq_finally"

\* FIRST the end region: a classified end region counts an iteration
EndCounted(w) ==
    IF EndChecked(frame[w]) THEN iteration_count[w] + 1 ELSE iteration_count[w]

\* the rest of the tick on the captured frame: FIRST the end check (a match
\* sends the END notification and breaks), SECOND the alt/wait check
MonFrame(w) ==
    /\ mainpc # "exit"
    /\ pc[w] = "mon_frame"
    /\ frame' = Put(frame, w, NoFrame)
    /\ iteration_count' = Put(iteration_count, w, EndCounted(w))
    /\ notified' = Put(notified, w, notified[w] \o EndNotice(frame[w]))
    /\ IF EndFires(frame[w])
       THEN /\ \E o \in Attempts(EndNotice(frame[w])) :
                  /\ delivered' = Put(delivered, w, delivered[w] \o o)
                  /\ pc' = Put(pc, w, AfterEndNotice(o))
            /\ UNCHANGED <<no_match_count, exit_reason>>
       ELSE /\ delivered' = delivered
            /\ IF ~ CropStatusRegion(frame[w])
               THEN NoMatch(w, "crop")
               ELSE IF StatusClassify(frame[w], "status").exc
               THEN NoMatch(w, "error")
               ELSE IF StatusConfident(StatusClassify(frame[w], "status"))
               THEN /\ no_match_count' = Put(no_match_count, w, 0)
                    /\ exit_reason' = exit_reason
                    /\ pc' = Put(pc, w, IF StatusClassify(frame[w], "status").pred = "alt"
                                        THEN "mon_alt" ELSE "mon_check")
               ELSE NoMatch(w, "lowconf")
    /\ UNCHANGED <<shared, env, origin, position, depth, acceptedAt, attempted,
                   completed, posCmds, altPressed, ticks, anyGrab>>
    /\ UNCHANGED aux

\* a restart that is given up when the ALT command did not go out
AfterAltOnlyIfSent(sent) == IF sent THEN "qe_init" ELSE "mon_check"

\* if self.keyboard.press_alt(): print(...) else: print(...); then
\* self._execute_qe_sequence() in either case
AfterAlt(sent) == "qe_init"

\* self.keyboard.press_alt(), then self._execute_qe_sequence()
MonAlt(w) ==
    /\ mainpc # "exit"
    /\ pc[w] = "mon_alt"
    /\ altPressed' = Put(altPressed, w, Pressed("ALT") # << >>)
    /\ origin' = Put(origin, w, "alt")
    /\ pc' = Put(pc, w, AfterAlt(Pressed("ALT") # << >>))
    /\ UNCHANGED <<shared, env, position, frame, no_match_count, iteration_count,
                   exit_reason, depth, acceptedAt, attempted, completed, posCmds, ticks,
                   anyGrab, notified,
                   delivered>>
    /\ UNCHANGED aux

\* an exit that does not look at the abort flag
ExitReasonNoAbort(w) ==
    IF exit_reason[w] = "" /\ iteration_count[w] >= STATUS_MAX_ITERATIONS THEN "maxiter"
    ELSE exit_reason[w]

\* after the loop: the max-iterations reason, then under the lock the S-key reason
ExitReason(w) ==
    IF stop_monitoring THEN "skey"
    ELSE IF exit_reason[w] = "" /\ iteration_count[w] >= STATUS_MAX_ITERATIONS THEN "maxiter"
    ELSE exit_reason[w]

MonExit(w) ==
    /\ mainpc # "exit"
    /\ pc[w] = "mon_exit"
    /\ exit_reason' = Put(exit_reason, w, ExitReason(w))
    /\ stop_monitoring' = FALSE
    /\ pc' = Put(pc, w, "mon_notify")
    /\ UNCHANGED <<processing, running, last_alt_press, connected, env, origin, position,
                   frame, no_match_count, iteration_count, depth, obs>>
    /\ UNCHANGED aux

\* if exit_reason and exit_reason != "Monitoring stopped by S key":
\* asyncio.run(send_message("Returning to IDLE state. Reason: ..."))
IdleNotice(w) ==
    IF exit_reason[w] \notin {"", "skey"} THEN <<exit_reason[w]>> ELSE << >>

\* the "Returning to IDLE" notification; the loop returns, and so does every
\* instance below it (return  # Exit this loop instance)
MonNotify(w) ==
    /\ mainpc # "exit"
    /\ pc[w] = "mon_notify"
    /\ \E o \in Attempts(IdleNotice(w)) :
          /\ delivered' = Put(delivered, w, delivered[w] \o o)
          /\ pc' = Put(pc, w, AfterIdleNotice(o))
    /\ no_match_count' = Put(no_match_count, w, 0)
    /\ iteration_count' = Put(iteration_count, w, 0)
    /\ exit_reason' = Put(exit_reason, w, "")
    /\ depth' = Put(depth, w, 0)
    /\ ticks' = Put(ticks, w, 0)
    /\ anyGrab' = Put(anyGrab, w, FALSE)
    /\ altPressed' = Put(altPressed, w, FALSE)
    /\ notified' = Put(notified, w, notified[w] \o IdleNotice(w))
    /\ UNCHANGED <<shared, env, origin, position, frame, acceptedAt, attempted,
                   completed, posCmds>>
    /\ UNCHANGED aux

----------------------------------------------------------------------------
(* main() before it has started *)

\* the module-level settings of config.py the controller above runs with:
\* thresholds in hundredths, delays in tenths of a second or milliseconds
ShippedConfig ==
    [VERBOSE_LOGGING |-> TRUE,
     ESP_DELAY_MIN |-> 50, ESP_DELAY_MAX |-> 200,
     CROP_SIZE |-> CROP_SIZE,
     INITIAL_DELAY |-> 4,
     CAPTURE_DELAYS |-> << <<0, 0>>, <<1, 2>> >>,
     MIN_CONFIDENCE_FOR_ESP_ACTION |-> MIN_CONFIDENCE_FOR_ESP_ACTION,
     HIGH_CONFIDENCE_THRESHOLD |-> 80,
     TEMPLATE_CONFIDENCE_THRESHOLD |-> TEMPLATE_CONFIDENCE_THRESHOLD,
     STATUS_CONFIDENCE_THRESHOLD |-> STATUS_CONFIDENCE_THRESHOLD,
     STATUS_CHECK_DELAY_MIN |-> 23, STATUS_CHECK_DELAY_MAX |-> 44,
     STATUS_INITIAL_WAIT |-> 2,
     STATUS_MAX_RETRIES |-> STATUS_MAX_RETRIES,
     STATUS_MAX_ITERATIONS |-> STATUS_MAX_ITERATIONS]

\* --esp-delay-range not given
NoRange == << >>

\* main() not yet called
NoStartup ==
    [pc |-> "main", config |-> ShippedConfig, esp_delay_range |-> NoRange,
     errors |-> << >>, automation |-> FALSE]

\* no classify call yet
NoMatcher ==
    [pc |-> "ready", region |-> "end", correlations |-> [c \in {"end"} |-> << >>],
     cnn |-> [raises |-> TRUE, pred |-> "", conf |-> 0],
     scores |-> [c \in {"end"} |-> 0], prediction |-> "", confidence |-> 0,
     final_pred |-> "", final_conf |-> 0, method_used |-> "", command |-> ""]

\* calculate_otsu_threshold before its loop: sum_background = 0,
\* weight_background = 0, maximum_variance = 0 (a fraction, kept as
\* numerator and denominator), optimal_threshold = 0
NoOtsu ==
    [pc |-> "loop", a |-> 0, b |-> 1, half |-> 1, threshold |-> 0,
     sum_background |-> 0, weight_background |-> 0,
     maximum_variance |-> <<0, 1>>, optimal_threshold |-> 0]

\* ESPCommunicator.__init__: serial_conn = None, is_connected = False
NoCommunicator ==
    [pc |-> "idle", serial_conn |-> "None", is_connected |-> FALSE, calls |-> 0,
     call |-> "", command |-> "", opened |-> FALSE, device |-> "", result |-> "none"]

\* KeypressCaptureClassifier / MTAESPAutomation after __init__:
\* _cycle_position = 0, _last_ts = {"alt": 0.0, "q": 0.0, "e": 0.0}; the
\* clock has run for a while, and no key has been handled
NoCycle ==
    [script |-> "capture", cycle_position |-> 0,
     last_ts |-> [k \in {"alt", "q", "e"} |-> 0], now |-> 1,
     key |-> "", captured |-> 0, command |-> ""]

----------------------------------------------------------------------------
(* The capture threads and the handle registry before any capture *)

CapThreads == 1..NumCapThreads

\* threading.get_ident(): nonzero, unique among the live threads, and free
\* to be given again once its thread has ended
Idents == 1..NumCapThreads

\* a thread that has not been started
NoThread == [st |-> "unborn", ident |-> 0, sct |-> 0, grabs |-> 0]

\* self._sct_instances = {} and no thread yet; main is where run() is
NoCapture ==
    [th |-> [t \in CapThreads |-> NoThread],
     sct_instances |-> [i \in Idents |-> 0],
     handles |-> << >>,
     processing |-> FALSE,
     main |-> "run",
     late |-> FALSE]

----------------------------------------------------------------------------
(* ESP32Serial: send_command, followed on its own *)

\* self.connection: None before connect, a serial.Serial that is open, or one
\* that disconnect has closed
Connections == {"None", "open", "closed"}

\* the commands KeyboardInterface hands to send_command
Commands == {"Q", "E", "ALT"}

\* what one pass through the try block meets: write raises; flush raises
\* after the write; in_waiting / readline / decode raises; nothing is waiting
\* after the sleep; or a line is read: OK, ERROR, or some other text
Outcomes == {"write_raises", "flush_raises", "read_raises", "silent", "OK", "ERROR", "other"}

\* except Exception as e
SendRaises(outcome) == outcome \in {"write_raises", "flush_raises", "read_raises"}

\* what the pass has put on the line: f"{command}\n"
Wire(outcome, command) == IF outcome = "write_raises" THEN << >> ELSE <<command>>

\* response = self.connection.readline().decode().strip(), when in_waiting > 0
Response(outcome) == IF outcome \in {"OK", "ERROR", "other"} THEN outcome ELSE ""

\* no call of send_command in progress
NoCall ==
    [pc |-> "idle", command |-> "", retries |-> 0, attempt |-> 0, tries |-> 0,
     errors |-> 0, written |-> << >>, flushed |-> 0, reply |-> "",
     result |-> "none", was_connected |-> FALSE]

\* ESP32Serial after connect succeeded
EspConnected == [is_connected |-> TRUE, connection |-> "open", call |-> NoCall]

\* ESP32Serial as it can be when send_command is called: never connected,
\* connected, disconnected
SendInit ==
    /\ ControllerInit
    /\ cycle = NoCycle
    /\ communicator = NoCommunicator
    /\ otsu = NoOtsu
    /\ matcher = NoMatcher
    /\ startup = NoStartup
    /\ capture = NoCapture
    /\ esp32 \in {[is_connected |-> c[1], connection |-> c[2], call |-> NoCall] :
                    c \in {<<FALSE, "None">>, <<TRUE, "open">>, <<FALSE, "closed">>}}

\* a guard that looks at the connection object only
NotConnectedNoFlag(e) == e.connection = "None"

\* if not self.is_connected or not self.connection
NotConnected(e) == ~ e.is_connected \/ e.connection = "None"

\* send_command is called: the connection test, then the for loop starts
\* (return False after the loop when range(retries) is empty)
SendCall ==
    /\ esp32.call.pc = "idle"
    /\ \E command \in Commands, retries \in 0..MaxRetriesArg :
          LET c == [NoCall EXCEPT !.command = command, !.retries = retries,
                                  !.was_connected = esp32.is_connected
                                                    /\ esp32.connection # "None"]
          IN  esp32' = [esp32 EXCEPT !.call =
                  IF NotConnected(esp32) \/ retries = 0
                  THEN [c EXCEPT !.pc = "returned", !.result = "False"]
                  ELSE [c EXCEPT !.pc = "attempt"]]
    /\ UNCHANGED <<controller, capture, startup, matcher, otsu, communicator, cycle>>

\* one pass of the for loop: write, flush, sleep, read; return True, or the
\* except clause: sleep and go on while attempt < retries - 1, else return False
SendAttempt ==
    /\ esp32.call.pc = "attempt"
    /\ \E outcome \in Outcomes :
          /\ esp32.connection = "closed" => outcome = "write_raises"
          /\ LET c == esp32.call
                 d == [c EXCEPT !.tries = c.tries + 1,
                                !.written = c.written \o Wire(outcome, c.command),
                                !.flushed = c.flushed
                                    + (IF outcome \in {"write_raises", "flush_raises"}
                                       THEN 0 ELSE 1),
                                !.reply = Response(outcome)]
             IN  esp32' = [esp32 EXCEPT !.call =
                     IF ~ SendRaises(outcome)
                     THEN [d EXCEPT !.pc = "returned", !.result = "True"]
                     ELSE IF c.attempt < c.retries - 1
                     THEN [d EXCEPT !.errors = c.errors + 1, !.attempt = c.attempt + 1]
                     ELSE [d EXCEPT !.errors = c.errors + 1, !.pc = "returned",
                                    !.result = "False"]]
    /\ UNCHANGED <<controller, capture, startup, matcher, otsu, communicator, cycle>>

\* the caller has the boolean
SendReturn ==
    /\ esp32.call.pc = "returned"
    /\ esp32' = [esp32 EXCEPT !.call = NoCall]
    /\ UNCHANGED <<controller, capture, startup, matcher, otsu, communicator, cycle>>

\* ESP32Serial.disconnect, called by the main thread's cleanup at any time
Disconnect ==
    /\ esp32.connection = "open"
    /\ esp32' = [esp32 EXCEPT !.connection = "closed", !.is_connected = FALSE]
    /\ UNCHANGED <<controller, capture, startup, matcher, otsu, communicator, cycle>>

SendNext ==
    \/ SendCall
    \/ SendAttempt
    \/ SendReturn
    \/ Disconnect

SendSpec == SendInit /\ [][SendNext]_vars

----------------------------------------------------------------------------
(* Capture handles: _get_thread_mss, _safe_grab and the cleanup of run,     *)
(* followed on their own                                                    *)

\* the threads that exist: started and not yet ended
Live(c) == {t \in CapThreads : c.th[t].st \notin {"unborn", "dead"}}

CaptureInit ==
    /\ ControllerInit
    /\ cycle = NoCycle
    /\ communicator = NoCommunicator
    /\ otsu = NoOtsu
    /\ matcher = NoMatcher
    /\ startup = NoStartup
    /\ esp32 = EspConnected
    /\ capture = NoCapture

\* threading.Thread(target=self._execute_sequence, daemon=True).start()
CapSpawn(t) ==
    /\ capture.main = "run"
    /\ capture.th[t].st = "unborn"
    /\ \A u \in CapThreads : u < t => capture.th[u].st # "unborn"
    /\ \E i \in Idents :
          /\ \A u \in Live(capture) : capture.th[u].ident # i
          /\ capture' = [capture EXCEPT !.th[t] = [NoThread EXCEPT !.st = "start",
                                                                    !.ident = i]]
    /\ UNCHANGED <<controller, esp32, startup, matcher, otsu, communicator, cycle>>

\* _execute_sequence: the flag test under the lock
CapTake(t) ==
    /\ capture.main # "exit"
    /\ capture.th[t].st = "start"
    /\ capture' = IF capture.processing
                  THEN [capture EXCEPT !.th[t].st = "dead"]
                  ELSE [capture EXCEPT !.th[t].st = "seq", !.processing = TRUE]
    /\ UNCHANGED <<controller, esp32, startup, matcher, otsu, communicator, cycle>>

\* thread_id in self._sct_instances
HasInstance(c, t) == c.sct_instances[c.th[t].ident] # 0

\* _safe_grab calls _get_thread_mss; with self._sct_lock:
\* if thread_id not in self._sct_instances: ... = mss.mss()
GetThreadMss(t) ==
    /\ capture.main # "exit"
    /\ capture.th[t].st = "seq"
    /\ capture.th[t].grabs < MaxGrabs
    /\ LET c == [capture EXCEPT !.th[t].st = "got", !.th[t].grabs = @ + 1]
       IN  capture' =
              IF HasInstance(capture, t)
              THEN c
              ELSE [c EXCEPT !.handles = Append(@, [by |-> t, ident |-> c.th[t].ident,
                                                    open |-> TRUE]),
                             !.sct_instances[c.th[t].ident] = Len(capture.handles) + 1,
                             !.late = @ \/ capture.main = "done"]
    /\ UNCHANGED <<controller, esp32, startup, matcher, otsu, communicator, cycle>>

\* return self._sct_instances[thread_id], outside the lock: the handle, or
\* a KeyError that _safe_grab catches (return None)
GetThreadMssReturn(t) ==
    /\ capture.main # "exit"
    /\ capture.th[t].st = "got"
    /\ capture' = IF HasInstance(capture, t)
                  THEN [capture EXCEPT !.th[t].st = "grab",
                                       !.th[t].sct = capture.sct_instances[capture.th[t].ident]]
                  ELSE [capture EXCEPT !.th[t].st = "seq"]
    /\ UNCHANGED <<controller, esp32, startup, matcher, otsu, communicator, cycle>>

\* screenshot = sct.grab(monitor): the handle is used, open or closed
Grab(t) ==
    /\ capture.main # "exit"
    /\ capture.th[t].st = "grab"
    /\ capture' = [capture EXCEPT !.th[t].st = "seq", !.th[t].sct = 0,
                                  !.late = @ \/ capture.main = "done"]
    /\ UNCHANGED <<controller, esp32, startup, matcher, otsu, communicator, cycle>>

\* finally: self._processing_sequence = False, and the thread ends
CapFinish(t) ==
    /\ capture.main # "exit"
    /\ capture.th[t].st = "seq"
    /\ capture' = [capture EXCEPT !.th[t].st = "dead", !.processing = FALSE]
    /\ UNCHANGED <<controller, esp32, startup, matcher, otsu, communicator, cycle>>

\* run, finally: with self._sct_lock: close every instance; clear()
SctClose ==
    /\ capture.main = "run"
    /\ capture' = [capture EXCEPT
          !.handles = [h \in 1..Len(capture.handles) |->
                          IF \E i \in Idents : capture.sct_instances[i] = h
                          THEN [capture.handles[h] EXCEPT !.open = FALSE]
                          ELSE capture.handles[h]],
          !.sct_instances = [i \in Idents |-> 0],
          !.main = "done"]
    /\ UNCHANGED <<controller, esp32, startup, matcher, otsu, communicator, cycle>>

\* run returns and the process ends, its daemon threads with it
CapExit ==
    /\ capture.main = "done"
    /\ capture' = [capture EXCEPT !.main = "exit"]
    /\ UNCHANGED <<controller, esp32, startup, matcher, otsu, communicator, cycle>>

CaptureNext ==
    \/ SctClose
    \/ CapExit
    \/ \E t \in CapThreads :
          \/ CapSpawn(t)
          \/ CapTake(t)
          \/ GetThreadMss(t)
          \/ GetThreadMssReturn(t)
          \/ Grab(t)
          \/ CapFinish(t)

CaptureSpec == CaptureInit /\ [][CaptureNext]_vars

----------------------------------------------------------------------------
(* Startup: main() from the configuration to the construction *)

\* the settings main() may find in config.py
Configs ==
    [VERBOSE_LOGGING : BOOLEAN,
     ESP_DELAY_MIN : {-1, 50, 200}, ESP_DELAY_MAX : {50, 200},
     CROP_SIZE : {0, CROP_SIZE},
     INITIAL_DELAY : {-4, 4},
     CAPTURE_DELAYS : {<< <<0, 0>>, <<1, 2>> >>, << <<2, 1>> >>,
                       << <<0>> >>, << <<-1, 0>> >>},
     MIN_CONFIDENCE_FOR_ESP_ACTION : {-10, MIN_CONFIDENCE_FOR_ESP_ACTION, 110},
     HIGH_CONFIDENCE_THRESHOLD : {80, 110},
     TEMPLATE_CONFIDENCE_THRESHOLD : {TEMPLATE_CONFIDENCE_THRESHOLD, 110},
     STATUS_CONFIDENCE_THRESHOLD : {STATUS_CONFIDENCE_THRESHOLD, 110},
     STATUS_CHECK_DELAY_MIN : {-1, 23, 44}, STATUS_CHECK_DELAY_MAX : {44},
     STATUS_INITIAL_WAIT : {-2, 2},
     STATUS_MAX_RETRIES : {0, 5},
     STATUS_MAX_ITERATIONS : {0, 50}]

\* args.esp_delay_range: absent, or the two integers given
Ranges == {NoRange, <<50, 200>>, <<200, 50>>, <<-1, 50>>}

\* errors.append(message) when the test finds a fault
Fault(found, message) == IF found THEN <<message>> ELSE << >>

\* the body of the loop over CAPTURE_DELAYS for one entry
DelayRangeErrors(delay_range) ==
    IF Len(delay_range) # 2
    THEN <<"CAPTURE_DELAYS must be a tuple of (min, max)">>
    ELSE Fault(delay_range[1] < 0 \/ delay_range[2] < 0,
               "CAPTURE_DELAYS values must be non-negative")
         \o Fault(delay_range[1] > delay_range[2],
                  "CAPTURE_DELAYS min must be less than or equal to max")

RECURSIVE CaptureDelaysErrors(_)
\* for i, delay_range in enumerate(CAPTURE_DELAYS)
CaptureDelaysErrors(delays) ==
    IF delays = << >> THEN << >>
    ELSE DelayRangeErrors(Head(delays)) \o CaptureDelaysErrors(Tail(delays))

\* config.validate_config(): the list of the faults found
validate_config(c) ==
    Fault(c.ESP_DELAY_MIN >= c.ESP_DELAY_MAX,
          "ESP_DELAY_MIN must be less than ESP_DELAY_MAX")
    \o Fault(c.ESP_DELAY_MIN < 0 \/ c.ESP_DELAY_MAX < 0,
             "ESP delay values must be non-negative")
    \o Fault(c.CROP_SIZE <= 0, "CROP_SIZE must be positive")
    \o Fault(c.INITIAL_DELAY < 0, "INITIAL_DELAY must be non-negative")
    \o CaptureDelaysErrors(c.CAPTURE_DELAYS)
    \o Fault(~ (0 <= c.MIN_CONFIDENCE_FOR_ESP_ACTION
                /\ c.MIN_CONFIDENCE_FOR_ESP_ACTION <= 100),
             "MIN_CONFIDENCE_FOR_ESP_ACTION must be between 0 and 1")
    \o Fault(~ (0 <= c.HIGH_CONFIDENCE_THRESHOLD /\ c.HIGH_CONFIDENCE_THRESHOLD <= 100),
             "HIGH_CONFIDENCE_THRESHOLD must be between 0 and 1")
    \o Fault(~ (0 <= c.TEMPLATE_CONFIDENCE_THRESHOLD
                /\ c.TEMPLATE_CONFIDENCE_THRESHOLD <= 100),
             "TEMPLATE_CONFIDENCE_THRESHOLD must be between 0 and 1")
    \o Fault(~ (0 <= c.STATUS_CONFIDENCE_THRESHOLD
                /\ c.STATUS_CONFIDENCE_THRESHOLD <= 100),
             "STATUS_CONFIDENCE_THRESHOLD must be between 0 and 1")
    \o Fault(c.STATUS_CHECK_DELAY_MIN >= c.STATUS_CHECK_DELAY_MAX,
             "STATUS_CHECK_DELAY_MIN must be less than STATUS_CHECK_DELAY_MAX")
    \o Fault(c.STATUS_CHECK_DELAY_MIN < 0 \/ c.STATUS_CHECK_DELAY_MAX < 0,
             "Status check delay values must be non-negative")
    \o Fault(c.STATUS_INITIAL_WAIT < 0, "STATUS_INITIAL_WAIT must be non-negative")
    \o Fault(c.STATUS_MAX_RETRIES < 1, "STATUS_MAX_RETRIES must be at least 1")
    \o Fault(c.STATUS_MAX_ITERATIONS < 1, "STATUS_MAX_ITERATIONS must be at least 1")

ConfigInit ==
    /\ ControllerInit
    /\ cycle = NoCycle
    /\ communicator = NoCommunicator
    /\ otsu = NoOtsu
    /\ matcher = NoMatcher
    /\ esp32 = EspConnected
    /\ capture = NoCapture
    /\ \E c \in Configs, r \in Ranges :
          startup = [NoStartup EXCEPT !.config = c, !.esp_delay_range = r]

\* main(): if config.VERBOSE_LOGGING, the summary is printed and the
\* configuration validated, and main returns when errors were found
MainValidate ==
    /\ startup.pc = "main"
    /\ IF startup.config.VERBOSE_LOGGING
       THEN startup' = [startup EXCEPT
                           !.errors = validate_config(startup.config),
                           !.pc = IF validate_config(startup.config) # << >>
                                  THEN "returned" ELSE "parse_args"]
       ELSE startup' = [startup EXCEPT !.pc = "parse_args"]
    /\ UNCHANGED <<controller, esp32, capture, matcher, otsu, communicator, cycle>>

\* args = ap.parse_args() and the test of --esp-delay-range
MainParseArgs ==
    /\ startup.pc = "parse_args"
    /\ LET r == startup.esp_delay_range IN
          startup' = [startup EXCEPT
                         !.pc = IF r # NoRange /\ (r[1] >= r[2] \/ r[1] < 0)
                                THEN "returned" ELSE "construct"]
    /\ UNCHANGED <<controller, esp32, capture, matcher, otsu, communicator, cycle>>

\* automation = AltTriggeredAutomation(...)
MainConstruct ==
    /\ startup.pc = "construct"
    /\ startup' = [startup EXCEPT !.pc = "run", !.automation = TRUE]
    /\ UNCHANGED <<controller, esp32, capture, matcher, otsu, communicator, cycle>>

ConfigNext == MainValidate \/ MainParseArgs \/ MainConstruct

ConfigSpec == ConfigInit /\ [][ConfigNext]_vars

----------------------------------------------------------------------------
(* The classifiers: one classify call from the correlations to the command *)

\* normalized_cross_correlation(image, template), in hundredths: a value of
\* [-1, 1], 0.0 when the shapes differ or the denominator is zero
Corrs == {-50, 0, 50, 100}

\* the region_type values the callers pass: the controller "end" and
\* "status", the PM detection diagnostic "pm"
RegionTypes == {"end", "status", "pm"}

\* for glyph in ["q", "e"] / if region_type == "end": status_list = ["end"]
\* else: status_list = ["alt", "wait"]
Categories(region) ==
    IF region = "glyph" THEN <<"q", "e">>
    ELSE IF region = "end" THEN <<"end">>
    ELSE <<"alt", "wait">>

Names(region) == {Categories(region)[i] : i \in 1..Len(Categories(region))}

\* self.templates[glyph], rotated variants included: what the probe
\* correlates to with each of them, in the order of the list
TemplateCorrs(values) == UNION {[1..n -> values] : n \in 0..MaxTemplates}

\* CNNGlyphClassifier.classify: a class and a softmax confidence, or
\* ValueError when the model is not trained
CnnResults ==
    {[raises |-> TRUE, pred |-> "", conf |-> 0]}
    \cup {[raises |-> FALSE, pred |-> p, conf |-> c] : p \in {"q", "e"}, c \in {30, 90}}

MatcherInit ==
    /\ ControllerInit
    /\ cycle = NoCycle
    /\ communicator = NoCommunicator
    /\ otsu = NoOtsu
    /\ esp32 = EspConnected
    /\ capture = NoCapture
    /\ startup = NoStartup
    /\ \E region \in {"glyph"} \cup RegionTypes :
          \E cs \in [Names(region) -> TemplateCorrs(Corrs)] :
             \E cnn \in IF region = "glyph" THEN CnnResults ELSE {NoMatcher.cnn} :
                matcher = [NoMatcher EXCEPT !.region = region, !.correlations = cs,
                                            !.cnn = cnn]

RECURSIVE MaxCorrelation(_, _)
\* for template in self.templates[glyph]:
\*     max_correlation = max(max_correlation, correlation)
MaxCorrelation(correlations, max_correlation) ==
    IF correlations = << >> THEN max_correlation
    ELSE MaxCorrelation(Tail(correlations), Max(max_correlation, Head(correlations)))

\* max_correlation = 0.0, then the loop; scores[glyph] = max_correlation
Score(correlations) == MaxCorrelation(correlations, 0)

RECURSIVE MaxByKey(_, _, _, _)
\* max(keys, key=...): the keys in order, the best so far replaced by a key
\* that compares greater (or, with orEqual, not smaller)
MaxByKey(keys, scores, best, orEqual) ==
    IF keys = << >> THEN best
    ELSE MaxByKey(Tail(keys), scores,
                  IF scores[Head(keys)] > scores[best]
                     \/ (orEqual /\ scores[Head(keys)] = scores[best])
                  THEN Head(keys) ELSE best,
                  orEqual)

\* a maximum that keeps the last of the keys that tie
PredictedLast(keys, scores) == MaxByKey(Tail(keys), scores, Head(keys), TRUE)

\* predicted_glyph = max(scores.keys(), key=lambda k: scores[k]): the first
\* of the keys that tie stays
Predicted(keys, scores) == MaxByKey(Tail(keys), scores, Head(keys), FALSE)

\* correlation = self.fast_correlation(...) in StatusTemplateClassifier.classify:
\* neither the class nor TemplateGlyphClassifier, its base, defines the
\* method, so the first template the loops come to ends the call in an
\* AttributeError; TemplateGlyphClassifier.classify calls
\* normalized_cross_correlation, which exists
ClassifyRaises(region, correlations) ==
    /\ region # "glyph"
    /\ \E c \in Names(region) : correlations[c] # << >>

\* TemplateGlyphClassifier.classify / StatusTemplateClassifier.classify
TemplateClassify ==
    /\ matcher.pc = "ready"
    /\ LET scores == [c \in Names(matcher.region) |-> Score(matcher.correlations[c])]
           predicted == Predicted(Categories(matcher.region), scores)
       IN IF ClassifyRaises(matcher.region, matcher.correlations)
          THEN matcher' = [matcher EXCEPT !.pc = "raised"]
          ELSE matcher' = [matcher EXCEPT !.pc = "matched", !.scores = scores,
                                          !.prediction = predicted,
                                          !.confidence = scores[predicted]]
    /\ UNCHANGED <<controller, esp32, capture, startup, otsu, communicator, cycle>>

\* HybridGlyphClassifier.classify after the template classifier has
\* returned (template_pred, template_conf): <<final_pred, final_conf, method_used>>
Hybrid(template_pred, template_conf, cnn, confidence_threshold, use_ensemble) ==
    IF template_conf >= confidence_threshold
    THEN <<template_pred, template_conf, "template_only">>
    ELSE IF cnn.raises
    THEN <<template_pred, template_conf, "template_fallback">>
    ELSE IF ~ use_ensemble
    THEN <<cnn.pred, cnn.conf, "cnn_fallback">>
    ELSE IF template_pred = cnn.pred
    THEN <<template_pred, (template_conf + cnn.conf) \div 2, "ensemble_agreement">>
    ELSE IF template_conf >= cnn.conf
    THEN <<template_pred, template_conf, "template_preferred">>
    ELSE <<cnn.pred, cnn.conf, "cnn_preferred">>

\* prediction, confidence, details = self.classifier.classify(pil_img)
HybridClassify ==
    /\ matcher.pc = "matched"
    /\ matcher.region = "glyph"
    /\ LET final == Hybrid(matcher.prediction, matcher.confidence, matcher.cnn,
                           TEMPLATE_CONFIDENCE_THRESHOLD, TRUE)
       IN matcher' = [matcher EXCEPT !.pc = "classified", !.final_pred = final[1],
                                     !.final_conf = final[2], !.method_used = final[3]]
    /\ UNCHANGED <<controller, esp32, capture, startup, otsu, communicator, cycle>>

\* StatusClassifier.classify: the template classifier's prediction and
\* confidence, passed on
StatusClassifierClassify ==
    /\ matcher.pc = "matched"
    /\ matcher.region # "glyph"
    /\ matcher' = [matcher EXCEPT !.pc = "classified",
                                  !.final_pred = matcher.prediction,
                                  !.final_conf = matcher.confidence,
                                  !.method_used = "status_template_matching"]
    /\ UNCHANGED <<controller, esp32, capture, startup, otsu, communicator, cycle>>

\* _process_classification: no command below MIN_CONFIDENCE_FOR_ESP_ACTION,
\* else press_q or press_e by the prediction
ProcessClassification ==
    /\ matcher.pc = "classified"
    /\ matcher.region = "glyph"
    /\ matcher' = [matcher EXCEPT
                      !.pc = "gated",
                      !.command = IF matcher.final_conf < MIN_CONFIDENCE_FOR_ESP_ACTION
                                  THEN ""
                                  ELSE IF matcher.final_pred = "q" THEN "Q" ELSE "E"]
    /\ UNCHANGED <<controller, esp32, capture, startup, otsu, communicator, cycle>>

MatcherNext ==
    \/ TemplateClassify
    \/ HybridClassify
    \/ StatusClassifierClassify
    \/ ProcessClassification

MatcherSpec == MatcherInit /\ [][MatcherNext]_vars

----------------------------------------------------------------------------
(* Otsu: calculate_otsu_threshold on an image of two intensities *)

\* histogram = np.bincount(image.flatten(), minlength=256) of an image with
\* half its pixels at a and half at b
Histogram(o, level) ==
    (IF level = o.a THEN o.half ELSE 0) + (IF level = o.b THEN o.half ELSE 0)

OtsuInit ==
    /\ ControllerInit
    /\ cycle = NoCycle
    /\ communicator = NoCommunicator
    /\ esp32 = EspConnected
    /\ capture = NoCapture
    /\ startup = NoStartup
    /\ matcher = NoMatcher
    /\ \E a, b \in 0..(Levels - 1), half \in 1..MaxHalf :
          /\ a < b
          /\ otsu = [NoOtsu EXCEPT !.a = a, !.b = b, !.half = half]

\* one pass of `for threshold in range(256)`, and the return after the last
\* pass or the break; the variance between the classes
\*   w_b * w_f * (sum_b / w_b - (sum_total - sum_b) / w_f) ** 2
\* is the fraction (sum_b * w_f - (sum_total - sum_b) * w_b) ** 2 / (w_b * w_f)
OtsuPass ==
    /\ otsu.pc = "loop"
    /\ LET threshold == otsu.threshold
           total_pixels == 2 * otsu.half
           sum_total == otsu.half * (otsu.a + otsu.b)
           weight_background == otsu.weight_background + Histogram(otsu, threshold)
           weight_foreground == total_pixels - weight_background
           sum_background == otsu.sum_background + threshold * Histogram(otsu, threshold)
           difference == sum_background * weight_foreground
                         - (sum_total - sum_background) * weight_background
           variance_between == <<difference * difference,
                                 weight_background * weight_foreground>>
           last == threshold + 1 = Levels
       IN IF weight_background = 0
          THEN otsu' = [otsu EXCEPT !.weight_background = weight_background,
                                    !.threshold = threshold + 1,
                                    !.pc = IF last THEN "returned" ELSE "loop"]
          ELSE IF weight_foreground = 0
          THEN otsu' = [otsu EXCEPT !.weight_background = weight_background,
                                    !.pc = "returned"]
          ELSE IF variance_between[1] * otsu.maximum_variance[2]
                  > otsu.maximum_variance[1] * variance_between[2]
          THEN otsu' = [otsu EXCEPT !.weight_background = weight_background,
                                    !.sum_background = sum_background,
                                    !.maximum_variance = variance_between,
                                    !.optimal_threshold = threshold,
                                    !.threshold = threshold + 1,
                                    !.pc = IF last THEN "returned" ELSE "loop"]
          ELSE otsu' = [otsu EXCEPT !.weight_background = weight_background,
                                    !.sum_background = sum_background,
                                    !.threshold = threshold + 1,
                                    !.pc = IF last THEN "returned" ELSE "loop"]
    /\ UNCHANGED <<controller, esp32, capture, startup, matcher, communicator, cycle>>

OtsuSpec == OtsuInit /\ [][OtsuPass]_vars

----------------------------------------------------------------------------
(* ESPCommunicator: connect and its PING probe *)

\* what the device does with a command: it answers a line, stays silent
\* until the read times out, or the write raises
Devices == {"OK", "ERROR", "other", "silent", "write_raises"}

CommunicatorInit ==
    /\ ControllerInit
    /\ cycle = NoCycle
    /\ esp32 = EspConnected
    /\ capture = NoCapture
    /\ startup = NoStartup
    /\ matcher = NoMatcher
    /\ otsu = NoOtsu
    /\ communicator = NoCommunicator

\* ESPCommunicator.send_command: False at once when the channel is not
\* marked connected or there is no connection object; else the command is
\* written and the line read decides
CommunicatorSend(c, device) ==
    IF ~ c.is_connected \/ c.serial_conn = "None" THEN FALSE
    ELSE device = "OK"

\* connect up to the probe: serial.Serial(...) opens the port or raises,
\* and the except clause returns False
ConnectOpen ==
    /\ communicator.pc \in {"idle", "returned"}
    /\ communicator.calls < MaxConnects
    /\ \E opens \in BOOLEAN, device \in Devices :
          communicator' =
              IF opens
              THEN [communicator EXCEPT !.pc = "probe", !.serial_conn = "open",
                                        !.calls = @ + 1, !.call = "connect",
                                        !.command = "PING", !.opened = TRUE,
                                        !.device = device, !.result = "none"]
              ELSE [communicator EXCEPT !.pc = "returned", !.calls = @ + 1,
                                        !.call = "connect", !.command = "",
                                        !.opened = FALSE, !.device = device,
                                        !.result = "False"]
    /\ UNCHANGED <<controller, esp32, capture, startup, matcher, otsu, cycle>>

\* if self.send_command("PING"): self.is_connected = True; return True
\* else: return False
ConnectProbe ==
    /\ communicator.pc = "probe"
    /\ communicator' =
          IF CommunicatorSend(communicator, communicator.device)
          THEN [communicator EXCEPT !.pc = "returned", !.is_connected = TRUE,
                                    !.result = "True"]
          ELSE [communicator EXCEPT !.pc = "returned", !.result = "False"]
    /\ UNCHANGED <<controller, esp32, capture, startup, matcher, otsu, cycle>>

\* press_key / release_key: send_command("PRESS Q") and the like
PressKey ==
    /\ communicator.pc \in {"idle", "returned"}
    /\ \E action \in {"PRESS", "RELEASE"}, key \in Commands, device \in Devices :
          communicator' =
              [communicator EXCEPT
                  !.pc = "returned", !.call = "send_command",
                  !.command = action \o " " \o key, !.device = device,
                  !.result = IF CommunicatorSend(communicator, device)
                             THEN "True" ELSE "False"]
    /\ UNCHANGED <<controller, esp32, capture, startup, matcher, otsu, cycle>>

\* disconnect: an open connection is closed and the mark taken back
CommunicatorDisconnect ==
    /\ communicator.pc \in {"idle", "returned"}
    /\ communicator.serial_conn = "open"
    /\ communicator' = [communicator EXCEPT !.pc = "idle", !.call = "disconnect",
                                            !.serial_conn = "closed",
                                            !.is_connected = FALSE]
    /\ UNCHANGED <<controller, esp32, capture, startup, matcher, otsu, cycle>>

CommunicatorNext == ConnectOpen \/ ConnectProbe \/ PressKey \/ CommunicatorDisconnect

CommunicatorSpec == CommunicatorInit /\ [][CommunicatorNext]_vars

----------------------------------------------------------------------------
(* The keypress-driven capture scripts: _handle_keypress *)

CycleInit ==
    /\ ControllerInit
    /\ esp32 = EspConnected
    /\ capture = NoCapture
    /\ startup = NoStartup
    /\ matcher = NoMatcher
    /\ otsu = NoOtsu
    /\ communicator = NoCommunicator
    /\ \E script \in {"capture", "esp"} : cycle = [NoCycle EXCEPT !.script = script]

\* a cycle that wraps one press late
GetCyclePositionLateWrap(cycle_position, keyname) ==
    IF keyname = "alt" THEN 1
    ELSE IF cycle_position + 1 > 5 THEN 2 ELSE cycle_position + 1

\* _get_cycle_position: alt sets the position to 1; q and e add one, and a
\* position above 4 becomes 2
GetCyclePosition(cycle_position, keyname) ==
    IF keyname = "alt" THEN 1
    ELSE IF cycle_position + 1 > 4 THEN 2 ELSE cycle_position + 1

\* MTAESPAutomation: _process_classification for positions 2 and 3 and a
\* prediction q or e; KeypressCaptureClassifier has no keyboard
CycleCommand(script, cycle_pos, result) ==
    IF script = "esp" /\ cycle_pos \in {2, 3} /\ result.pred \in {"q", "e"}
       /\ result.conf >= MIN_CONFIDENCE_FOR_ESP_ACTION
    THEN IF result.pred = "q" THEN "Q" ELSE "E"
    ELSE ""

\* _handle_keypress(keyname): the debounce per key, the cycle position, the
\* skip of position 4, then capture, crop, classification and command; an
\* exception of the classification ends the handler in on_press; grabbed
\* is FALSE when _safe_grab or _crop_frame returns None
HandleKeypress ==
    \E keyname \in {"alt", "q", "e"} :
        /\ IF (cycle.now - cycle.last_ts[keyname]) < DEBOUNCE_S
           THEN cycle' = cycle
           ELSE LET cycle_pos == GetCyclePosition(cycle.cycle_position, keyname)
                    pressed == [cycle EXCEPT !.last_ts[keyname] = cycle.now,
                                             !.cycle_position = cycle_pos,
                                             !.key = keyname, !.captured = 0,
                                             !.command = ""]
                IN  IF cycle_pos = 4
                    THEN cycle' = pressed
                    ELSE \E grabbed \in BOOLEAN, result \in GlyphResults :
                            cycle' = IF ~ grabbed THEN pressed
                                     ELSE IF result.exc
                                     THEN [pressed EXCEPT !.captured = cycle_pos]
                                     ELSE [pressed EXCEPT
                                              !.captured = cycle_pos,
                                              !.command = CycleCommand(cycle.script,
                                                                       cycle_pos, result)]
        /\ UNCHANGED <<controller, esp32, capture, startup, matcher, otsu, communicator>>

\* time passes between two key presses
CycleTick ==
    /\ cycle.now < CycleHorizon
    /\ cycle' = [cycle EXCEPT !.now = cycle.now + 1]
    /\ UNCHANGED <<controller, esp32, capture, startup, matcher, otsu, communicator>>

CycleNext == HandleKeypress \/ CycleTick

CycleSpec == CycleInit /\ [][CycleNext]_vars

----------------------------------------------------------------------------
(* The system *)

\* the controller after __init__, its collaborators at rest
Init ==
    /\ ControllerInit
    /\ cycle = NoCycle
    /\ communicator = NoCommunicator
    /\ otsu = NoOtsu
    /\ matcher = NoMatcher
    /\ startup = NoStartup
    /\ esp32 = EspConnected
    /\ capture = NoCapture

Worker(w) ==
    \/ ExecuteSequence(w)
    \/ QEInit(w)
    \/ QEGrab(w)
    \/ QEFrame(w)
    \/ MonInit(w)
    \/ MonCheck(w)
    \/ MonGrab(w)
    \/ MonFrame(w)
    \/ MonAlt(w)
    \/ MonExit(w)
    \/ MonNotify(w)
    \/ SequenceFinally(w)

Next ==
    \/ HandleAltPress
    \/ OnPressS
    \/ OnPressEsc
    \/ Tick
    \/ RunLoopExit
    \/ RunInterrupted
    \/ RunReturns
    \/ \E w \in Workers : Worker(w)

Spec == Init /\ [][Next]_vars

\* every worker is a thread of its own (threading.Thread(...).start()) whose
\* steps are bounded sleeps, one capture, one classification, one send: a
\* worker that can take a step takes it
FairSpec == Spec /\ \A w \in Workers : WF_vars(Worker(w))

TypeOK ==
    /\ processing \in BOOLEAN /\ stop_monitoring \in BOOLEAN /\ running \in BOOLEAN
    /\ connected \in BOOLEAN
    /\ now \in StartTime..(StartTime + TimeHorizon)
    /\ last_alt_press \in {0} \cup (StartTime..(StartTime + TimeHorizon))
    /\ mainpc \in {"listen", "sct_close", "exit"}
    /\ \A w \in Workers :
          /\ pc[w] \in Pcs
          /\ origin[w] \in {"trigger", "alt"}
          /\ position[w] \in 0..NPositions
          /\ exit_reason[w] \in Reasons
          /\ depth[w] \in 0..MaxDepth
          /\ ticks[w] \in 0..TickCap
          /\ Len(notified[w]) <= 2

----------------------------------------------------------------------------
(* Properties *)

\* a worker that has taken the in-progress flag and not yet cleared it
InFlight(w) == pc[w] \notin {"free", "start"}

\* the process is still there after the step
Lives == mainpc' # "exit"

Spawned == \E w \in Workers : pc[w] = "free" /\ pc'[w] = "start"

\* C2: a trigger is accepted only if no trigger was accepted before or the
\* last accepted one is at least the debounce interval old; only an accepted
\* trigger spawns a worker or moves the debounce timestamp, so triggers less
\* than the interval apart start one sequence and do not restart the window
C2_Debounce ==
    [][(Spawned \/ last_alt_press' # last_alt_press \/ acceptedAt' # acceptedAt) =>
            /\ Spawned
            /\ acceptedAt < 0 \/ now - acceptedAt >= ALT_DEBOUNCE_TIME
            /\ acceptedAt' = now
            /\ last_alt_press' = now]_vars

\* a second trigger was accepted, a full debounce interval after the first
C2_Witness ==
    /\ acceptedAt >= StartTime + ALT_DEBOUNCE_TIME
    /\ last_alt_press = acceptedAt
    /\ \E w \in Workers : pc[w] = "start"

\* the glyph of the frame a worker is processing
Glyph(w) == frame[w].glyph

\* C3: processing a position sends at most one command; a command goes out
\* only for a confidence >= MIN_CONFIDENCE_FOR_ESP_ACTION, and then it is Q
\* for prediction q and E for prediction e (and it does go out while the
\* keyboard is connected); no other step of a worker sends a Q/E command
C3_ConfidenceGating ==
    [][\A w \in Workers :
          /\ (pc[w] = "qe_frame" /\ pc'[w] # "qe_frame" /\ Lives) =>
                /\ Len(posCmds'[w]) <= 1
                /\ posCmds'[w] # << >> =>
                      /\ Glyph(w).conf >= MIN_CONFIDENCE_FOR_ESP_ACTION
                      /\ \/ Glyph(w).pred = "q" /\ posCmds'[w] = <<"Q">>
                         \/ Glyph(w).pred = "e" /\ posCmds'[w] = <<"E">>
                /\ (/\ CropFrame(frame[w], position[w])
                    /\ ~ Glyph(w).exc
                    /\ Glyph(w).conf >= MIN_CONFIDENCE_FOR_ESP_ACTION
                    /\ Glyph(w).pred \in {"q", "e"}
                    /\ connected) => posCmds'[w] # << >>
          /\ pc[w] # "qe_frame" => (posCmds'[w] = << >> \/ posCmds'[w] = posCmds[w])]_vars

\* a position was processed and its command Q went out
C3_Witness ==
    \E w \in Workers : posCmds[w] = <<"Q">> /\ position[w] \in 1..NPositions

\* the captured frame's end region reads END at or above the status threshold
ReadsEnd(f) ==
    /\ CropEndRegion(f)
    /\ ~ f.end.exc
    /\ f.end.pred = "end"
    /\ f.end.conf >= STATUS_CONFIDENCE_THRESHOLD

\* C4: a tick whose end region reads END leaves the loop on that tick,
\* whatever the alt/wait region holds: the no-match counter keeps its
\* value, no ALT goes out, no Q/E sequence is restarted, and the exit that
\* follows never goes back to polling
C4_EndPriority ==
    [][\A w \in Workers :
          /\ (pc[w] = "mon_frame" /\ ReadsEnd(frame[w]) /\ pc'[w] # pc[w] /\ Lives) =>
                /\ pc'[w] = "mon_exit"
                /\ no_match_count'[w] = no_match_count[w]
                /\ altPressed'[w] = altPressed[w]
                /\ origin'[w] = origin[w]
          /\ (pc[w] = "mon_exit" /\ pc'[w] # pc[w] /\ Lives) => pc'[w] = "mon_notify"
          /\ (pc[w] = "mon_notify" /\ pc'[w] # pc[w] /\ Lives) => pc'[w] = "seq_finally"]_vars

\* a tick has captured a frame whose end region reads END and whose
\* alt/wait region reads alt, both at the threshold, with a failed tick counted
C4_Witness ==
    \E w \in Workers :
        /\ pc[w] = "mon_frame"
        /\ ReadsEnd(frame[w])
        /\ frame[w].status.pred = "alt"
        /\ frame[w].status.conf >= STATUS_CONFIDENCE_THRESHOLD
        /\ no_match_count[w] > 0

\* C5: an alt match sends ALT before any Q/E command of the restarted
\* sequence; the restarted sequence goes over all positions and is followed
\* by a monitoring phase whose two counters start from 0
C5_AltRestart ==
    [][\A w \in Workers :
          /\ (pc[w] = "mon_alt" /\ connected /\ pc'[w] # pc[w] /\ Lives) =>
                /\ altPressed'[w]
                /\ posCmds'[w] = << >>
                /\ pc'[w] = "qe_init"
          /\ (origin[w] = "alt" /\ pc[w] \in QEPcs /\ pc'[w] \notin QEPcs /\ Lives) =>
                /\ attempted'[w] = Positions
                /\ pc'[w] = "mon_init"
          /\ (pc[w] = "mon_init" /\ pc'[w] # pc[w] /\ Lives) =>
                /\ pc'[w] = "mon_check"
                /\ no_match_count'[w] = 0
                /\ iteration_count'[w] = 0]_vars

\* C6: while every capture of a monitoring phase has failed, the phase has
\* made at most STATUS_MAX_RETRIES ticks, each one counted as a failure; it
\* goes on polling below that number, and it leaves the loop (no abort, no
\* quit) after exactly that number with the capture-failure reason
C6_RetryExhaustion ==
    \A w \in Workers :
        (pc[w] \in MonPcs \ {"mon_init"} /\ ~ anyGrab[w]) =>
            /\ ticks[w] <= STATUS_MAX_RETRIES
            /\ no_match_count[w] = ticks[w]
            /\ pc[w] \in {"mon_check", "mon_grab"} => ticks[w] < STATUS_MAX_RETRIES
            /\ (pc[w] = "mon_exit" /\ running /\ ~ stop_monitoring) =>
                  ticks[w] = STATUS_MAX_RETRIES /\ exit_reason[w] = "capture"
            /\ (pc[w] = "mon_notify" /\ running /\ exit_reason[w] # "skey") =>
                  ticks[w] = STATUS_MAX_RETRIES /\ exit_reason[w] = "capture"

\* a phase whose captures all failed has left the loop after
\* STATUS_MAX_RETRIES ticks and reports the capture failures
C6_Witness ==
    \E w \in Workers :
        /\ pc[w] = "mon_notify"
        /\ ~ anyGrab[w]
        /\ ticks[w] = STATUS_MAX_RETRIES
        /\ exit_reason[w] = "capture"

\* C7: a monitoring phase in which neither END nor alt is matched makes at
\* most STATUS_MAX_ITERATIONS polling ticks (stated for the phase that follows
\* a trigger, before any alt match of the cycle)
C7_IterationBudget ==
    \A w \in Workers : origin[w] = "trigger" => ticks[w] <= STATUS_MAX_ITERATIONS

\* C8: every invocation of the Q/E sequence attempts every configured
\* position exactly once, whatever failed at the positions before
C8_AllPositionsAttempted ==
    [][\A w \in Workers :
          (pc[w] \in QEPcs /\ pc'[w] \notin QEPcs /\ Lives) =>
              attempted'[w] = Positions]_vars

\* C9: a Q/E sequence started by a trigger that has gone through all its
\* positions is followed by the monitoring phase
C9_EntersMonitoring ==
    [][\A w \in Workers :
          (/\ origin[w] = "trigger"
           /\ pc[w] \in QEPcs
           /\ attempted[w] = Positions
           /\ pc'[w] \notin QEPcs
           /\ Lives) => pc'[w] = "mon_init"]_vars

\* the first n configured positions
Done(n) == {Positions[i] : i \in 1..n}

\* C10: the positions of one Q/E sequence are captured in increasing order,
\* each one once, and a position is captured only when the processing of
\* every position before it (capture, classification, command) has returned
C10_PositionOrder ==
    \A w \in Workers :
        /\ Len(attempted[w]) <= NPositions
        /\ \A i \in 1..Len(attempted[w]) : attempted[w][i] = Positions[i]
        /\ pc[w] = "qe_grab" =>
              /\ Len(attempted[w]) < NPositions
              /\ position[w] = Positions[Len(attempted[w]) + 1]
              /\ completed[w] = Done(Len(attempted[w]))
        /\ pc[w] = "qe_frame" =>
              /\ attempted[w] # << >>
              /\ position[w] = Positions[Len(attempted[w])]
              /\ completed[w] = Done(Len(attempted[w]) - 1)

\* the last position has been captured after the positions before it returned
C10_Witness ==
    \E w \in Workers :
        /\ pc[w] = "qe_frame"
        /\ attempted[w] = Positions
        /\ completed[w] = Done(NPositions - 1)

\* the alt/wait check of the captured frame is reached and returns a result
ReadsStatus(f) == ~ ReadsEnd(f) /\ CropStatusRegion(f) /\ ~ f.status.exc

\* C11: a tick whose alt/wait read comes back below
\* STATUS_CONFIDENCE_THRESHOLD, whatever its label, adds one to the no-match
\* counter; it sends no ALT and no Q/E command and restarts no Q/E sequence:
\* the worker goes back to the loop check, or leaves the loop when the
\* counter has reached STATUS_MAX_RETRIES
C11_LowConfidenceIgnored ==
    [][\A w \in Workers :
          (/\ pc[w] = "mon_frame"
           /\ ReadsStatus(frame[w])
           /\ frame[w].status.conf < STATUS_CONFIDENCE_THRESHOLD
           /\ pc'[w] # pc[w]
           /\ Lives) =>
              /\ no_match_count'[w] = no_match_count[w] + 1
              /\ pc'[w] = IF no_match_count[w] + 1 >= STATUS_MAX_RETRIES
                          THEN "mon_exit" ELSE "mon_check"
              /\ altPressed'[w] = altPressed[w]
              /\ posCmds'[w] = posCmds[w]
              /\ origin'[w] = origin[w]
              /\ depth'[w] = depth[w]]_vars

\* a tick has captured a frame whose alt/wait region reads alt just below
\* the threshold, and the low-confidence reads before it were counted
C11_Witness ==
    \E w \in Workers :
        /\ pc[w] = "mon_frame"
        /\ ReadsStatus(frame[w])
        /\ frame[w].status.pred = "alt"
        /\ frame[w].status.conf < STATUS_CONFIDENCE_THRESHOLD
        /\ no_match_count[w] = STATUS_MAX_RETRIES - 1

\* C12: a tick that does not match END and whose alt/wait read is wait at or
\* above the threshold sets the no-match counter to 0, sends nothing and
\* goes back to the loop check; the check starts another tick exactly when
\* the iteration budget is not used up and neither abort nor quit is set
C12_WaitKeepsPolling ==
    [][\A w \in Workers :
          /\ (/\ pc[w] = "mon_frame"
              /\ ReadsStatus(frame[w])
              /\ frame[w].status.pred = "wait"
              /\ frame[w].status.conf >= STATUS_CONFIDENCE_THRESHOLD
              /\ pc'[w] # pc[w]
              /\ Lives) =>
                 /\ no_match_count'[w] = 0
                 /\ pc'[w] = "mon_check"
                 /\ altPressed'[w] = altPressed[w]
                 /\ posCmds'[w] = posCmds[w]
                 /\ origin'[w] = origin[w]
                 /\ exit_reason'[w] = exit_reason[w]
          /\ (pc[w] = "mon_check" /\ pc'[w] # pc[w] /\ Lives) =>
                 /\ pc'[w] \in {"mon_grab", "mon_exit"}
                 /\ pc'[w] = "mon_grab" <=>
                       (/\ iteration_count[w] < STATUS_MAX_ITERATIONS
                        /\ running
                        /\ ~ stop_monitoring)]_vars

\* a tick has captured a frame that reads wait at the threshold while failed
\* ticks are counted
C12_Witness ==
    \E w \in Workers :
        /\ pc[w] = "mon_frame"
        /\ ReadsStatus(frame[w])
        /\ frame[w].status.pred = "wait"
        /\ frame[w].status.conf >= STATUS_CONFIDENCE_THRESHOLD
        /\ no_match_count[w] > 0

\* a crop or a classifier call the tick makes on the captured frame fails
\* (a tick that matches END makes no alt/wait check)
TickFails(f) ==
    \/ ~ CropEndRegion(f)
    \/ CropEndRegion(f) /\ f.end.exc
    \/ ~ ReadsEnd(f) /\ ~ CropStatusRegion(f)
    \/ ~ ReadsEnd(f) /\ CropStatusRegion(f) /\ f.status.exc

\* C13: a tick whose capture fails, whose end or alt/wait region cannot be
\* cropped, or whose end or alt/wait classification raises adds one to the
\* no-match counter, and it leaves the loop exactly when the counter has
\* thereby reached STATUS_MAX_RETRIES
C13_FailuresCounted ==
    [][\A w \in Workers :
          (/\ \/ pc[w] = "mon_grab" /\ pc'[w] \notin {"mon_grab", "mon_frame"}
              \/ pc[w] = "mon_frame" /\ pc'[w] # pc[w] /\ TickFails(frame[w])
           /\ Lives) =>
              /\ no_match_count'[w] = no_match_count[w] + 1
              /\ pc'[w] = IF no_match_count[w] + 1 >= STATUS_MAX_RETRIES
                          THEN "mon_exit" ELSE "mon_check"]_vars

\* C14: a monitoring phase that ends on an END match attempts the END
\* notification and nothing else: no "Returning to IDLE" notification with a
\* retry or max-iterations reason follows it, on whichever iteration the
\* match occurs
C14_EndExitOwnReason ==
    \A w \in Workers :
        (notified[w] # << >> /\ notified[w][1] = "end") => notified[w] = <<"end">>

\* C15: when the abort flag is set as a monitoring phase finishes, the exit
\* takes the S-key reason in place of any other and clears the flag; no
\* "Returning to IDLE" notification is sent for it, and the worker goes back
\* to idle, clearing the in-progress flag
C15_AbortSuppressesNotice ==
    [][\A w \in Workers :
          /\ (pc[w] = "mon_exit" /\ stop_monitoring /\ pc'[w] # pc[w] /\ Lives) =>
                /\ ~ stop_monitoring'
                /\ exit_reason'[w] = "skey"
                /\ notified'[w] = notified[w]
                /\ pc'[w] = "mon_notify"
          /\ (pc[w] = "mon_notify" /\ exit_reason[w] = "skey" /\ pc'[w] # pc[w] /\ Lives) =>
                /\ notified'[w] = notified[w]
                /\ pc'[w] = "seq_finally"
          /\ (pc[w] = "seq_finally" /\ pc'[w] # pc[w] /\ Lives) =>
                /\ pc'[w] = "free"
                /\ ~ processing']_vars

\* a phase that had used up its retries finished with the abort flag set:
\* the flag is cleared and the S-key reason has replaced the retry reason
C15_Witness ==
    \E w \in Workers :
        /\ pc[w] = "mon_notify"
        /\ exit_reason[w] = "skey"
        /\ no_match_count[w] >= STATUS_MAX_RETRIES
        /\ ~ stop_monitoring

C17_AbortClearedOnAccept ==
    [][/\ (~ processing /\ processing') =>
             /\ ~ stop_monitoring'
             /\ \E w \in Workers : pc[w] = "start" /\ pc'[w] = "qe_init"
       /\ (~ stop_monitoring /\ stop_monitoring') =>
             UNCHANGED <<processing, running, locals, obs>>]_vars

\* a trigger was accepted while idle with the abort flag set: its worker is
\* about to take the in-progress flag
C17_Witness ==
    /\ stop_monitoring
    /\ ~ processing
    /\ mainpc = "listen"
    /\ \E w \in Workers : pc[w] = "start"

\* C18: an exception raised while a position or a tick is processed stays
\* inside the worker: the worker goes on or goes to its finally clause. A
\* worker that holds the in-progress flag ends through the finally clause
\* only, which clears the flag; so the flag is clear whenever no worker is
\* in flight, and the worker of a later accepted trigger starts its sequence
C18_FlagAlwaysCleared ==
    /\ []((mainpc # "exit" /\ \A w \in Workers : ~ InFlight(w)) => ~ processing)
    /\ [][\A w \in Workers :
            /\ (pc[w] = "qe_frame" /\ pc'[w] # pc[w] /\ Lives) =>
                  pc'[w] \in {"qe_grab", "mon_init", "mon_check", "mon_exit", "seq_finally"}
            /\ (pc[w] \in {"mon_grab", "mon_frame"} /\ pc'[w] # pc[w] /\ Lives) =>
                  pc'[w] \in MonPcs
            /\ (InFlight(w) /\ pc'[w] \in {"free", "start"} /\ Lives) =>
                  /\ pc[w] = "seq_finally"
                  /\ pc'[w] = "free"
                  /\ ~ processing'
            /\ (pc[w] = "start" /\ ~ processing /\ pc'[w] # pc[w] /\ Lives) =>
                  /\ pc'[w] = "qe_init"
                  /\ processing']_vars

\* the sequence a trigger started has raised at a position: its worker is in
\* the finally clause with positions left unattempted, the flag still set
C18_Witness ==
    \E w \in Workers :
        /\ pc[w] = "seq_finally"
        /\ origin[w] = "trigger"
        /\ attempted[w] # << >>
        /\ completed[w] # Done(Len(attempted[w]))
        /\ processing

\* C19: whatever the glyph classifier or the result logger does while a
\* position is processed, raising included, the processing of that position
\* returns to the sequence: the next position is captured, or after the last
\* position the monitoring phase starts
C19_PositionContainsException ==
    [][\A w \in Workers :
          (pc[w] = "qe_frame" /\ pc'[w] # pc[w] /\ Lives) =>
              /\ position[w] \in completed'[w]
              /\ pc'[w] = IF position[w] = Positions[NPositions]
                          THEN "mon_init" ELSE "qe_grab"]_vars

\* C20: within one worker cycle no invocation of the monitoring loop is
\* left waiting below the running one, however many alt matches the cycle
\* has seen: every alt restart has returned into the one loop
C20_NoNestedMonitoring ==
    \A w \in Workers : depth[w] = 0

\* the threads at a step that sends a command: _capture_classify_and_send
\* on a captured frame, and the alt branch of the monitoring loop
Sending == {w \in Workers : pc[w] \in {"qe_frame", "mon_alt"}}

\* C21: at any moment at most one thread is at a step that sends a command
\* on the serial connection, and that thread holds the in-progress flag;
\* the main thread and the key listener send nothing
C21_SendsNeverOverlap ==
    /\ Cardinality(Sending) <= 1
    /\ Sending # {} => processing

\* a worker is about to send while another thread has been started and
\* the shutdown has closed the connection
C21_Witness ==
    \E w, v \in Workers :
        /\ w \in Sending
        /\ pc[v] = "start"
        /\ mainpc = "sct_close"

\* C22: a finished send_command has handed back a boolean, and no call ends
\* any other way; called while the channel is not connected it returns False
\* and has made no attempt and written nothing; otherwise it has made at
\* most `retries` attempts, returning True on the first attempt without an
\* error and False when all `retries` attempts failed
C22_SendReturnsBoolean ==
    LET c == esp32.call
    IN  /\ c.pc \in {"idle", "attempt", "returned"}
        /\ c.tries <= c.retries
        /\ c.pc = "attempt" => (c.errors = c.tries /\ c.tries < c.retries)
        /\ c.pc = "returned" =>
              /\ c.result \in {"True", "False"}
              /\ ~ c.was_connected =>
                    (c.result = "False" /\ c.tries = 0 /\ c.written = << >>)
              /\ c.result = "True" => c.errors = c.tries - 1
              /\ (c.result = "False" /\ c.was_connected) =>
                    (c.tries = c.retries /\ c.errors = c.retries)

\* a send has returned False after every one of its several attempts failed
C22_Witness ==
    LET c == esp32.call
    IN  /\ c.pc = "returned"
        /\ c.result = "False"
        /\ c.was_connected
        /\ c.retries >= 2
        /\ c.errors = c.retries

\* C23: a send that returns True has read the line OK from the device
C23_TrueOnlyOnOK ==
    (esp32.call.pc = "returned" /\ esp32.call.result = "True") => esp32.call.reply = "OK"

\* C24: once the cleanup of run has finished, every capture handle that was
\* created is closed, none is registered, and no thread has created or used
\* a handle since
C24_HandlesClosedAtShutdown ==
    capture.main = "done" =>
        /\ \A h \in 1..Len(capture.handles) : ~ capture.handles[h].open
        /\ \A i \in Idents : capture.sct_instances[i] = 0
        /\ ~ capture.late

\* C25: while the controller runs (before its shutdown cleanup), a thread
\* that captures uses a handle it has created itself, no thread has created
\* more than one handle, and two live threads never hold the same handle
C25_OwnHandlePerThread ==
    capture.main = "run" =>
        /\ \A t \in CapThreads :
              capture.th[t].sct # 0 => capture.handles[capture.th[t].sct].by = t
        /\ \A t \in CapThreads :
              Cardinality({h \in 1..Len(capture.handles) : capture.handles[h].by = t}) <= 1
        /\ \A t, u \in Live(capture) :
              (t # u /\ capture.th[t].sct # 0) => capture.th[t].sct # capture.th[u].sct

\* worker w attempts a notification in this step
NotifyStep(w) == Len(delivered'[w]) = Len(delivered[w]) + 1

\* C26: what comes of a notification attempt (success, failure return or
\* exception) has no effect on control flow: a step that attempts one takes
\* the worker to the place its state before the step decides, and leaves the
\* flags, the commands sent and the counters as that state decides
C26_NotifierOutcomeIgnored ==
    [][\A w \in Workers : NotifyStep(w) =>
          /\ pc[w] \in {"mon_frame", "mon_notify"}
          /\ pc' = Put(pc, w, IF pc[w] = "mon_frame" THEN "mon_exit" ELSE "seq_finally")
          /\ exit_reason' = Put(exit_reason, w,
                                IF pc[w] = "mon_frame" THEN exit_reason[w] ELSE "")
          /\ no_match_count' = Put(no_match_count, w,
                                   IF pc[w] = "mon_frame" THEN no_match_count[w] ELSE 0)
          /\ UNCHANGED <<shared, env, origin, position, attempted, completed, posCmds>>
      ]_vars

C26_Witness ==
    \E w \in Workers :
        /\ pc[w] = "seq_finally"
        /\ Len(delivered[w]) = 2
        /\ delivered[w][1] = "raises"
        /\ delivered[w][2] = "False"

\* C27: when the configuration breaks a validated constraint (ESP_DELAY_MIN
\* not below ESP_DELAY_MAX, a confidence threshold outside [0, 1], fewer than
\* one retry or one iteration), the controller is never constructed, whatever
\* the other settings are
C27_InvalidConfigNeverConstructed ==
    LET c == startup.config IN
    startup.automation =>
        /\ c.ESP_DELAY_MIN < c.ESP_DELAY_MAX
        /\ \A threshold \in {c.MIN_CONFIDENCE_FOR_ESP_ACTION, c.HIGH_CONFIDENCE_THRESHOLD,
                             c.TEMPLATE_CONFIDENCE_THRESHOLD,
                             c.STATUS_CONFIDENCE_THRESHOLD} :
              0 <= threshold /\ threshold <= 100
        /\ c.STATUS_MAX_RETRIES >= 1
        /\ c.STATUS_MAX_ITERATIONS >= 1

\* the place of a category in the order classify goes through them
Place(region, c) == CHOOSE i \in 1..Len(Categories(region)) : Categories(region)[i] = c

\* C28: classify returns a category whose score is maximal among those it
\* considered, the first of them in iteration order when several tie (q
\* before e, alt before wait), and the confidence it returns is that
\* category's score
C28_FirstMaximalCategory ==
    matcher.pc \notin {"ready", "raised"} =>
        /\ matcher.prediction \in Names(matcher.region)
        /\ \A c \in Names(matcher.region) :
              /\ matcher.scores[c] <= matcher.scores[matcher.prediction]
              /\ Place(matcher.region, c) < Place(matcher.region, matcher.prediction)
                    => matcher.scores[c] < matcher.scores[matcher.prediction]
        /\ matcher.confidence = matcher.scores[matcher.prediction]

C28_Witness ==
    /\ matcher.pc = "matched"
    /\ matcher.region = "glyph"
    /\ matcher.scores["q"] = 50
    /\ matcher.scores["e"] = 50
    /\ matcher.prediction = "q"
    /\ matcher.confidence = 50

\* C29: the score classify reports for a category that has templates is the
\* greatest of the correlations with that category's templates, whatever
\* these correlations are within [-1, 1]
C29_ScoreIsMaxCorrelation ==
    matcher.pc \notin {"ready", "raised"} =>
        \A c \in Names(matcher.region) :
            LET cs == matcher.correlations[c] IN
            Len(cs) > 0 =>
                /\ \E i \in 1..Len(cs) : matcher.scores[c] = cs[i]
                /\ \A i \in 1..Len(cs) : matcher.scores[c] >= cs[i]

\* C30: the prediction and the confidence the glyph classifier returns, and
\* the controller gates the key command on, are the template matcher's best
\* category and that category's score, unaltered
C30_GlyphResultIsTemplateResult ==
    (matcher.region = "glyph" /\ matcher.pc \in {"classified", "gated"}) =>
        /\ matcher.final_pred = matcher.prediction
        /\ matcher.final_conf = matcher.confidence

\* the categories a region type stands for
RegionCategories(region) ==
    CASE region = "end" -> {"end"}
      [] region = "status" -> {"alt", "wait"}
      [] region = "pm" -> {"pm"}

\* C31: the region type of a status classify call decides its categories: the
\* prediction and the keys of the score map belong to {end} for "end", to
\* {alt, wait} for "status" and to {pm} for "pm"
C31_RegionSelectsCategories ==
    (matcher.region \in RegionTypes /\ matcher.pc \notin {"ready", "raised"}) =>
        /\ matcher.prediction \in RegionCategories(matcher.region)
        /\ DOMAIN matcher.scores = RegionCategories(matcher.region)

\* C32: on an image with half its pixels at intensity a and half at b, a < b,
\* calculate_otsu_threshold returns a threshold strictly between the two:
\* a < threshold < b
C32_OtsuBetweenModes ==
    otsu.pc = "returned" =>
        (otsu.a < otsu.optimal_threshold /\ otsu.optimal_threshold < otsu.b)

\* a trigger arrives and passes on to a new thread, or that thread runs into
\* the flag check, while a sequence is in flight
TriggerInFlight ==
    /\ processing
    /\ \E w \in Workers : \/ pc[w] = "free" /\ pc'[w] = "start"
                          \/ pc[w] = "start" /\ pc'[w] = "free"

\* C33: a trigger that arrives while a sequence is in flight is ignored
\* entirely: the in-progress flag, the abort flag, the debounce timestamp of
\* the last accepted trigger and the running worker's counters stay as they
\* were, and no command is sent
C33_TriggerInFlightIgnored ==
    [][(TriggerInFlight /\ Lives) =>
          UNCHANGED <<processing, stop_monitoring, last_alt_press, no_match_count,
                      iteration_count, position, posCmds, altPressed>>]_vars

\* C34: after an alt match the loop instance that detected it polls no more:
\* every step of the restarted Q/E sequence stays in that sequence or passes
\* on to the fresh monitoring phase, also when it ends in an exception, and
\* the detecting instance counts no retry and sets no exit reason
C34_NoPollingAfterAltMatch ==
    [][\A w \in Workers :
          (origin[w] = "alt" /\ pc[w] \in QEPcs /\ Lives) =>
              /\ pc'[w] \in QEPcs \cup {"mon_init"}
              /\ no_match_count'[w] = no_match_count[w]
              /\ exit_reason'[w] = exit_reason[w]
      ]_vars

\* C35: with at least one template loaded for a category of the selected
\* region type, the status classifier's classify returns a result for every
\* image: the call never ends in an error
C35_StatusClassifyReturns ==
    (matcher.region \in RegionTypes
     /\ \E c \in Names(matcher.region) : Len(matcher.correlations[c]) > 0)
        => matcher.pc # "raised"

\* C36: ESPCommunicator.connect returns True and leaves the channel marked
\* connected whenever the port opens and the device answers the PING probe
\* with OK; it returns False only when the port does not open or the probe is
\* not acknowledged
C36_ConnectSucceedsOnOK ==
    (communicator.call = "connect" /\ communicator.pc = "returned") =>
        /\ (communicator.opened /\ communicator.device = "OK")
              => (communicator.result = "True" /\ communicator.is_connected)
        /\ communicator.result = "False"
              => (~ communicator.opened \/ communicator.device # "OK")

\* C37: one call of send_command delivers the command at most once: after
\* an attempt whose write and flush succeeded, the same call writes nothing
\* more
C37_DeliveredAtMostOnce ==
    [][esp32.call.flushed >= 1 =>
          Len(esp32'.call.written) <= Len(esp32.call.written)]_vars

\* C38: throughout a monitoring phase the no-match counter stays within
\* 0..STATUS_MAX_RETRIES and the iteration counter within
\* 0..STATUS_MAX_ITERATIONS, and a polling tick starts only with both
\* counters strictly below their limits
C38_CountersWithinBudget ==
    \A w \in Workers :
        /\ pc[w] \in MonPcs =>
              /\ 0 <= no_match_count[w] /\ no_match_count[w] <= STATUS_MAX_RETRIES
              /\ 0 <= iteration_count[w] /\ iteration_count[w] <= STATUS_MAX_ITERATIONS
        /\ pc[w] = "mon_grab" =>
              /\ no_match_count[w] < STATUS_MAX_RETRIES
              /\ iteration_count[w] < STATUS_MAX_ITERATIONS

C38_Witness ==
    \E w \in Workers :
        /\ pc[w] = "mon_grab"
        /\ no_match_count[w] = STATUS_MAX_RETRIES - 1
        /\ iteration_count[w] = STATUS_MAX_ITERATIONS - 1
        /\ ticks[w] >= 1

\* C39: on an alt match the Q/E sequence is restarted whether or not the ALT
\* command went out: the step that sends ALT always passes on to the
\* restarted sequence, and the failed send changes no counter and no flag
C39_RestartDespiteFailedAlt ==
    [][\A w \in Workers :
          (pc[w] = "mon_alt" /\ pc'[w] # "mon_alt" /\ Lives) =>
              /\ pc'[w] = "qe_init"
              /\ origin'[w] = "alt"
              /\ UNCHANGED <<shared, no_match_count, iteration_count, exit_reason>>
      ]_vars

C39_Witness ==
    \E w \in Workers :
        /\ origin[w] = "alt"
        /\ ~ altPressed[w]
        /\ pc[w] \in QEPcs
        /\ attempted[w] # << >>

\* C40: in the keypress-driven capture scripts the cycle position stays in
\* 0..4: Alt sets it to 1, each Q/E press adds one and wraps from 4 to 2; a
\* press that lands on position 4 captures, classifies and sends nothing,
\* and MTAESPAutomation sends a key command only for a press that lands on
\* position 2 or 3 (KeypressCaptureClassifier sends none)
C40_CyclePositionBounded ==
    /\ [](/\ cycle.cycle_position \in 0..4
          /\ cycle.captured \in 0..3
          /\ cycle.cycle_position = 4 => (cycle.captured = 0 /\ cycle.command = "")
          /\ cycle.command # "" => (cycle.script = "esp" /\ cycle.captured \in {2, 3}))
    /\ [][cycle'.cycle_position # cycle.cycle_position =>
             cycle'.cycle_position =
                 IF cycle'.key = "alt" THEN 1
                 ELSE IF cycle.cycle_position = 4 THEN 2
                 ELSE cycle.cycle_position + 1]_vars

C40_Witness ==
    /\ cycle.script = "esp"
    /\ cycle.cycle_position = 4
    /\ cycle.key \in {"q", "e"}
    /\ cycle.captured = 0
    /\ cycle.now = CycleHorizon

====
